---- MODULE Spec2Model ----
(***************************************************************************)
(* Verification model of the breadboard circuit builder's validation       *)
(* engine (circuit-validator.js, class CircuitValidator) together with     *)
(* the breadboard hole generator it consumes (breadboard-data.js).         *)
(*                                                                         *)
(* One validate() call is followed from its entry to its return (or to     *)
(* the exception that escapes it).  Every layer of the pipeline is one     *)
(* action; the diagnostics each layer produces are computed by operators   *)
(* that follow the JavaScript statement by statement.                      *)
(*                                                                         *)
(* JavaScript values are represented as follows.                           *)
(*   - undefined and null are the strings Undefined and Null;              *)
(*   - a string that may contain '.' separators (a wire endpoint) is the   *)
(*     sequence of its '.'-separated segments, so that includes('.') is    *)
(*     Len > 1 and split('.') is the sequence itself; the empty sequence    *)
(*     stands for a missing (falsy) endpoint;                              *)
(*   - an object whose key order matters (a placement) is the sequence of  *)
(*     its entries in insertion order;                                     *)
(*   - a Map is the sequence of its keys in insertion order plus a         *)
(*     function on them.                                                   *)
(***************************************************************************)
EXTENDS Integers, Sequences, FiniteSets, TLC

Undefined == "<undefined>"
Null == "<null>"

\* JavaScript truthiness of a string-or-undefined value
Truthy(v) == v /= Undefined /\ v /= Null /\ v /= ""

RECURSIVE SeqSum(_)
SeqSum(s) == IF s = <<>> THEN 0 ELSE Head(s) + SeqSum(Tail(s))

Range(s) == {s[i] : i \in DOMAIN s}

\* concatenation of a sequence of sequences (errors.push(...x) in a forEach)
RECURSIVE Flatten(_)
Flatten(ss) == IF ss = <<>> THEN <<>> ELSE Head(ss) \o Flatten(Tail(ss))

(***************************************************************************)
(* Bounds of the model.  The breadboard of the program has 30 columns and  *)
(* rails of 5 groups of 5 holes; the model generates a smaller board with  *)
(* the same generator.                                                     *)
(***************************************************************************)
MaxColumns == 5
MaxRailGroups == 2
MaxHolesInGroup == 2
MaxComponents == 4
MaxWires == 2

(***************************************************************************)
(* breadboard-data.js: BREADBOARD_CONFIG.layout and generateBreadboardData *)
(***************************************************************************)
rowsTop == <<"J", "I", "H", "G", "F">>
rowsBottom == <<"E", "D", "C", "B", "A">>
railRowsTop == <<"W", "X">>
railRowsBottom == <<"Y", "Z">>
railType == <<"power", "ground">>

\* one section of the main grid: rows.forEach(row => for col = 1..columns)
MainGridHoles(rows, section) ==
    [k \in 1..(Len(rows) * MaxColumns) |->
        LET rowIndex == (k - 1) \div MaxColumns
            col == ((k - 1) % MaxColumns) + 1
        IN  [id |-> ToString(col) \o rows[rowIndex + 1],
             type |-> "main",
             bus |-> "bus" \o ToString(col) \o "-" \o section]]

\* one rail of the top pair: holeCounter is incremented after every push
TopRailHoles(rowIndex) ==
    [k \in 1..(MaxRailGroups * MaxHolesInGroup) |->
        LET group == (k - 1) \div MaxHolesInGroup
            holeCounter == k
        IN  [id |-> ToString(holeCounter) \o railRowsTop[rowIndex],
             type |-> railType[rowIndex],
             bus |-> "rail-top-" \o railRowsTop[rowIndex] \o "-group" \o ToString(group)]]

\* one rail of the bottom pair: holeCounter is initialised to 1 and the loop
\* body never increments it
BottomRailHoles(rowIndex) ==
    [k \in 1..(MaxRailGroups * MaxHolesInGroup) |->
        LET group == (k - 1) \div MaxHolesInGroup
            holeCounter == 1
        IN  [id |-> ToString(holeCounter) \o railRowsBottom[rowIndex],
             type |-> railType[rowIndex],
             bus |-> "rail-bottom-" \o railRowsBottom[rowIndex] \o "-group" \o ToString(group)]]

generateBreadboardData ==
    MainGridHoles(rowsTop, "top") \o MainGridHoles(rowsBottom, "bottom")
    \o TopRailHoles(1) \o TopRailHoles(2)
    \o BottomRailHoles(1) \o BottomRailHoles(2)

\* constructor: this.holes = breadboardHoles
holes == generateBreadboardData

\* index of the last hole record with this id (Map.set overwrites)
LastIndexOf(id) ==
    LET idx == {i \in DOMAIN holes : holes[i].id = id}
    IN  CHOOSE i \in idx : \A j \in idx : j <= i

\* buildHoleMap: holeId -> hole object
holeMap == [id \in {holes[i].id : i \in DOMAIN holes} |-> holes[LastIndexOf(id)]]

\* buildBusMap: holeId -> bus
busMap == [id \in {holes[i].id : i \in DOMAIN holes} |-> holes[LastIndexOf(id)].bus]

\* this.busMap.get(holeId)
BusMapGet(holeId) == IF holeId \in DOMAIN busMap THEN busMap[holeId] ELSE Undefined

\* this.holeMap.has(holeId)
HoleMapHas(holeId) == holeId \in DOMAIN holeMap

\* this.holes.filter(h => h.bus === bus).some(h => h.type === kind)
BusHasHoleOfType(bus, kind) ==
    \E i \in DOMAIN holes : holes[i].bus = bus /\ holes[i].type = kind

(***************************************************************************)
(* The component registry behind fetch(): components/library.json and the  *)
(* per-type JSON documents { component: { pins, validation } }.  A         *)
(* definition keeps its pin names in key order, the pwmCapable flag of     *)
(* each pin ("true", "false" or Undefined when the key is absent) and the  *)
(* validation block (electricalType, and whether rules is present).        *)
(***************************************************************************)
libraryIndex == {"led-red-5mm", "resistor-220", "raspberry-pi-pico"}

ledDefinition ==
    [pins |-> <<"cathode", "anode">>,
     pwmCapable |-> [p \in {"cathode", "anode"} |-> Undefined],
     hasValidation |-> TRUE, electricalType |-> "led", hasRules |-> TRUE]

resistorDefinition ==
    [pins |-> <<"pin0", "pin1">>,
     pwmCapable |-> [p \in {"pin0", "pin1"} |-> Undefined],
     hasValidation |-> TRUE, electricalType |-> "resistor", hasRules |-> TRUE]

picoDefinition ==
    [pins |-> <<"GP0", "GND_3", "VBUS">>,
     pwmCapable |-> [p \in {"GP0", "GND_3", "VBUS"} |->
                        IF p = "GP0" THEN "true"
                        ELSE IF p = "GND_3" THEN "false" ELSE Undefined],
     hasValidation |-> TRUE, electricalType |-> "microcontroller", hasRules |-> TRUE]

componentFiles ==
    [t \in libraryIndex |->
        IF t = "led-red-5mm" THEN ledDefinition
        ELSE IF t = "resistor-220" THEN resistorDefinition
        ELSE picoDefinition]

\* the registries a run may face: every file served, or one file the server
\* does not deliver (response.ok false)
UnavailableChoices == {{}, {"resistor-220"}}

\* pinName.includes('GND') and pinName.startsWith('GP') on the pin names
\* that occur in the documents of the model
IncludesGND(pinName) == pinName \in {"GND_3"}
StartsWithGP(pinName) == pinName \in {"GP0"}

(***************************************************************************)
(* Circuit documents.                                                      *)
(***************************************************************************)
Entry(pin, holeId) == [pin |-> pin, holeId |-> holeId, isString |-> TRUE]
\* a placement value that is not a string (the Pico's position object)
ObjectEntry(pin) == [pin |-> pin, holeId |-> Undefined, isString |-> FALSE]

Component(id, type, placement) ==
    [kind |-> "object", id |-> id, type |-> type,
     placementKind |-> "object", placement |-> placement,
     propertiesKind |-> "absent"]

Wire(id, from, to, signal_type, function) ==
    [kind |-> "object", id |-> id, from |-> from, to |-> to,
     signal_type |-> signal_type, function |-> function]

\* an array element that is null
nullElement ==
    [kind |-> "null", id |-> Undefined, type |-> Undefined,
     placementKind |-> "missing", placement |-> <<>>,
     propertiesKind |-> "absent"]
\* an object without id, type and placement, with a string as properties
badComponent ==
    [kind |-> "object", id |-> Undefined, type |-> Undefined,
     placementKind |-> "missing", placement |-> <<>>,
     propertiesKind |-> "string"]
\* an object with an empty placement
emptyPlacementComponent ==
    [kind |-> "object", id |-> "e1", type |-> "resistor-220",
     placementKind |-> "object", placement |-> <<>>,
     propertiesKind |-> "object"]

nullWire ==
    [kind |-> "null", id |-> Undefined, from |-> <<>>, to |-> <<>>,
     signal_type |-> Undefined, function |-> Undefined]
badWire ==
    [kind |-> "object", id |-> Undefined, from |-> <<>>, to |-> <<"1J">>,
     signal_type |-> Undefined, function |-> Undefined]

\* the components the documents of the model are assembled from
ComponentPool ==
    << Component("pico1", "raspberry-pi-pico", <<ObjectEntry("position")>>),
       Component("r1", "resistor-220", <<Entry("pin0", "1J"), Entry("pin1", "5J")>>),
       Component("led1", "led-red-5mm", <<Entry("anode", "5F"), Entry("cathode", "5E")>>),
       Component("r2", "resistor-220", <<Entry("pin0", "2J"), Entry("pin1", "4J")>>),
       Component("led2", "led-red-5mm", <<Entry("cathode", "4E"), Entry("anode", "4F")>>),
       Component("pico1", "raspberry-pi-pico", <<Entry("GP0", "3A")>>),
       Component("led1", "led-red-5mm", <<Entry("anode", "3F"), Entry("cathode", "3G")>>),
       Component("x1", "flux-capacitor", <<Entry("a", "9Q")>>),
       Component("r3", "resistor-220", <<Entry("pin0", "1A"), Entry("pinX", "2A")>>),
       Component("led3", "led-red-5mm", <<Entry("anode", "2F")>>),
       Component("led4", "led-green-5mm", <<Entry("anode", "2G"), Entry("cathode", "2E")>>) >>

\* the wires the documents of the model are assembled from
WirePool ==
    << Wire("w1", <<"pico1", "GP0">>, <<"1J">>, Undefined, Undefined),
       Wire("w2", <<"5E">>, <<"pico1", "GND_3">>, Undefined, Undefined),
       Wire("w3", <<"pico1", "GP0">>, <<"pico1", "GND_3">>, Undefined, "signal"),
       Wire("w4", <<"pico1", "GND_3">>, <<"4J">>, "pwm", Undefined),
       Wire("w1", <<"4E">>, <<"pico1", "GND_3">>, Undefined, "signal"),
       Wire("w6", <<"led1", "bogus">>, <<"5D">>, Undefined, Undefined),
       Wire("w7", <<"ghost", "GP0">>, <<"9Q">>, Undefined, "power"),
       Wire("w8", <<"1W">>, <<"1X">>, Undefined, Undefined),
       Wire("w9", <<"1W">>, <<"1A">>, Undefined, Undefined),
       Wire("w10", <<"1B">>, <<"1X">>, Undefined, Undefined),
       Wire("w11", <<"1W">>, <<"pico1", "GND_3">>, Undefined, Undefined),
       Wire("w12", <<"1W">>, <<"5E">>, Undefined, Undefined),
       Wire("w13", <<"5F">>, <<"1X">>, Undefined, Undefined) >>

\* the elements of pool at the indices of S, in pool order
RECURSIVE Pick(_, _)
Pick(pool, S) ==
    IF S = {} THEN <<>>
    ELSE LET m == CHOOSE i \in S : \A j \in S : i <= j
         IN  <<pool[m]>> \o Pick(pool, S \ {m})

\* the sub-lists of pool, of max elements at most, taken among the indices of within
SubLists(pool, within, max) ==
    {Pick(pool, S) : S \in {T \in SUBSET within : Cardinality(T) <= max}}

\* the documents are assembled family by family: the circuits around the Pico,
\* the circuits of resistors and LEDs on the board, and the circuits with
\* references that do not resolve
Families ==
    { [components |-> {1, 2, 3, 6},        wires |-> {1, 2, 3, 4, 5, 11}],
      [components |-> {2, 3, 4, 5, 6, 7},  wires |-> {2, 8, 9, 10}],
      [components |-> {2, 3, 8, 9, 10, 11}, wires |-> {6, 7, 8}],
      [components |-> {2, 3},              wires |-> {1, 12, 13}] }

goodMetadata == [kind |-> "object", name |-> "Simple LED Test", description |-> "Single LED controlled by GPIO0"]
MetadataChoices ==
    { goodMetadata,
      [kind |-> "missing", name |-> Undefined, description |-> Undefined],
      [kind |-> "object", name |-> "", description |-> "Single LED controlled by GPIO0"] }

Document(rootKind, circuitKind, metadata, componentsKind, components, wiresKind, wires) ==
    [rootKind |-> rootKind, circuitKind |-> circuitKind, metadata |-> metadata,
     componentsKind |-> componentsKind, components |-> components,
     wiresKind |-> wiresKind, wires |-> wires]

\* documents of the documented shape, with any components and wires of the pools
CircuitDocuments ==
    UNION { { Document("object", "object", goodMetadata, "array", cs, "array", ws) :
                cs \in SubLists(ComponentPool, f.components, MaxComponents),
                ws \in SubLists(WirePool, f.wires, MaxWires) } : f \in Families }

\* documents whose shape is wrong at some level
MalformedDocuments ==
    { Document(r, c, m, ck, IF ck = "array" THEN cs ELSE <<>>, wk, IF wk = "array" THEN ws ELSE <<>>) :
        r \in {"object", "null"}, c \in {"object", "missing"}, m \in MetadataChoices,
        ck \in {"array", "missing", "object"}, wk \in {"array", "missing", "object"},
        cs \in { <<>>, <<ComponentPool[2]>>, <<nullElement>>, <<badComponent>>,
                 <<ComponentPool[2], emptyPlacementComponent>> },
        ws \in { <<>>, <<WirePool[1]>>, <<nullWire>>, <<WirePool[1], badWire>> } }

Documents == CircuitDocuments \cup MalformedDocuments

(***************************************************************************)
(* Helper methods.  The message text of a diagnostic is not modelled; the  *)
(* type, severity, location and metadata fields are.                       *)
(***************************************************************************)
noMetadata == [x \in {} |-> Undefined]

createError(type, location, metadata) ==
    [type |-> type, severity |-> "error", location |-> location] @@ metadata

createWarning(type, location, metadata) ==
    [type |-> type, severity |-> "warning", location |-> location] @@ metadata

\* component.placement[pin]
PlacementGet(component, pin) ==
    IF \E i \in DOMAIN component.placement : component.placement[i].pin = pin
    THEN LET i == CHOOSE i \in DOMAIN component.placement : component.placement[i].pin = pin
         IN  component.placement[i].holeId
    ELSE Undefined

\* reference.includes('.')
IncludesDot(reference) == Len(reference) > 1

\* a string without '.' as a plain value
Plain(reference) == IF Len(reference) = 0 THEN Undefined ELSE reference[1]

\* circuit.components.find(c => c.id === compId) finds a component
HasComponent(circuit, compId) ==
    \E i \in DOMAIN circuit.components : circuit.components[i].id = compId

\* the component that find returns: the first one with this id
ComponentById(circuit, compId) ==
    LET idx == {i \in DOMAIN circuit.components : circuit.components[i].id = compId}
    IN  circuit.components[CHOOSE i \in idx : \A j \in idx : i <= j]

(***************************************************************************)
(* LAYER 1: structural validation                                          *)
(***************************************************************************)
validateMetadata(metadata) ==
    (IF metadata.name = Undefined \/ metadata.name = ""
     THEN <<createError("INVALID_METADATA", "metadata", noMetadata)>> ELSE <<>>)
    \o
    (IF metadata.description = Undefined \/ metadata.description = ""
     THEN <<createError("INVALID_METADATA", "metadata", noMetadata)>> ELSE <<>>)

validateComponentSchema(component, index) ==
    LET location == "components[" \o ToString(index) \o "]"
    IN  (IF ~Truthy(component.id)
         THEN <<createError("MISSING_COMPONENT_ID", location, noMetadata)>> ELSE <<>>)
        \o
        (IF ~Truthy(component.type)
         THEN <<createError("MISSING_COMPONENT_TYPE", location, noMetadata)>> ELSE <<>>)
        \o
        (IF component.placementKind /= "object"
         THEN <<createError("MISSING_PLACEMENT", location, noMetadata)>>
         ELSE (IF Len(component.placement) = 0
               THEN <<createError("EMPTY_PLACEMENT", location, noMetadata)>> ELSE <<>>)
              \o
              Flatten([i \in DOMAIN component.placement |->
                        IF ~component.placement[i].isString
                        THEN <<createError("INVALID_HOLE_ID", location, noMetadata)>>
                        ELSE <<>>]))
        \o
        (IF component.propertiesKind = "string"
         THEN <<createError("INVALID_PROPERTIES", location, noMetadata)>> ELSE <<>>)

validateWireSchema(wire, index) ==
    LET location == "wires[" \o ToString(index) \o "]"
    IN  (IF ~Truthy(wire.id)
         THEN <<createError("MISSING_WIRE_ID", location, noMetadata)>> ELSE <<>>)
        \o
        (IF Len(wire.from) = 0
         THEN <<createError("MISSING_WIRE_FROM", location, noMetadata)>> ELSE <<>>)
        \o
        (IF Len(wire.to) = 0
         THEN <<createError("MISSING_WIRE_TO", location, noMetadata)>> ELSE <<>>)

validateSchema(circuitJSON) ==
    IF circuitJSON.rootKind /= "object"
    THEN <<createError("INVALID_JSON", "Root", noMetadata)>>
    ELSE IF circuitJSON.circuitKind /= "object"
    THEN <<createError("MISSING_CIRCUIT", "Root", noMetadata)>>
    ELSE (IF circuitJSON.metadata.kind = "missing"
          THEN <<createError("MISSING_METADATA", "circuit", noMetadata)>> ELSE <<>>)
         \o
         (IF circuitJSON.componentsKind /= "array"
          THEN <<createError("MISSING_COMPONENTS", "circuit", noMetadata)>> ELSE <<>>)
         \o
         (IF circuitJSON.wiresKind /= "array"
          THEN <<createError("MISSING_WIRES", "circuit", noMetadata)>> ELSE <<>>)
         \o
         (IF circuitJSON.metadata.kind /= "missing"
          THEN validateMetadata(circuitJSON.metadata) ELSE <<>>)
         \o
         (IF circuitJSON.componentsKind = "array"
          THEN Flatten([i \in DOMAIN circuitJSON.components |->
                           validateComponentSchema(circuitJSON.components[i], i - 1)])
          ELSE <<>>)
         \o
         (IF circuitJSON.wiresKind = "array"
          THEN Flatten([i \in DOMAIN circuitJSON.wires |->
                           validateWireSchema(circuitJSON.wires[i], i - 1)])
          ELSE <<>>)

\* validateSchema reads component.id / wire.id of every array element without
\* a guard: a null element raises a TypeError that nothing catches
validateSchemaThrows(circuitJSON) ==
    /\ circuitJSON.rootKind = "object"
    /\ circuitJSON.circuitKind = "object"
    /\ \/ /\ circuitJSON.componentsKind = "array"
          /\ \E i \in DOMAIN circuitJSON.components : circuitJSON.components[i].kind = "null"
       \/ /\ circuitJSON.wiresKind = "array"
          /\ \E i \in DOMAIN circuitJSON.wires : circuitJSON.wires[i].kind = "null"

(***************************************************************************)
(* loadComponent(componentType), against the cache this.loadedComponents   *)
(* (a function from the cached types to their definitions) and the set of  *)
(* files the server does not deliver.                                      *)
(***************************************************************************)
\* the call rejects: no library, type not in the index, or fetch not ok
loadComponentThrows(componentType, library, cache, unavailable) ==
    /\ componentType \notin DOMAIN cache
    /\ \/ library = Null
       \/ componentType \notin libraryIndex
       \/ componentType \in unavailable

\* the definition a successful call returns
loadComponentResult(componentType, cache) ==
    IF componentType \in DOMAIN cache THEN cache[componentType]
    ELSE componentFiles[componentType]

\* a variant of loadComponent that stores the definition before it looks at response.ok
loadComponentCache_BeforeOk(componentType, library, cache, unavailable) ==
    IF componentType \in DOMAIN cache
       \/ library = Null \/ componentType \notin libraryIndex
    THEN cache
    ELSE cache @@ (componentType :> componentFiles[componentType])

\* this.loadedComponents after the call
loadComponentCache(componentType, library, cache, unavailable) ==
    IF componentType \in DOMAIN cache
       \/ loadComponentThrows(componentType, library, cache, unavailable)
    THEN cache
    ELSE cache @@ (componentType :> componentFiles[componentType])

(***************************************************************************)
(* LAYER 2: reference validation                                           *)
(***************************************************************************)
\* first loop: one DUPLICATE_COMPONENT_ID per repeated occurrence of an id
DuplicateComponentIds(circuit) ==
    Flatten([i \in DOMAIN circuit.components |->
        LET comp == circuit.components[i]
        IN  IF Truthy(comp.id)
               /\ \E j \in 1..(i - 1) : circuit.components[j].id = comp.id
            THEN <<createError("DUPLICATE_COMPONENT_ID", comp.id, noMetadata)>>
            ELSE <<>>])

\* the component ids collected by the first loop
ComponentIds(circuit) ==
    {circuit.components[i].id : i \in {j \in DOMAIN circuit.components :
                                            Truthy(circuit.components[j].id)}}

\* placedPins.forEach: the pins of the placement the definition does not define
InvalidPinNames(comp, componentDef) ==
    Flatten([i \in DOMAIN comp.placement |->
        IF comp.placement[i].pin \notin Range(componentDef.pins)
        THEN <<createError("INVALID_PIN_NAME", comp.id, noMetadata)>>
        ELSE <<>>])

\* second loop, from component i on: the errors and the cache it ends with
RECURSIVE ComponentTypeReferences(_, _, _, _, _)
ComponentTypeReferences(circuit, i, library, cache, unavailable) ==
    IF i > Len(circuit.components) THEN [errors |-> <<>>, cache |-> cache]
    ELSE LET comp == circuit.components[i]
             threw == loadComponentThrows(comp.type, library, cache, unavailable)
             here == IF ~Truthy(comp.type) THEN <<>>
                     ELSE IF threw
                     THEN <<createError("UNKNOWN_COMPONENT_TYPE", comp.id, noMetadata)>>
                     ELSE IF comp.placementKind = "object"
                     THEN InvalidPinNames(comp, loadComponentResult(comp.type, cache))
                     ELSE <<>>
             after == IF ~Truthy(comp.type) THEN cache
                      ELSE loadComponentCache(comp.type, library, cache, unavailable)
             rest == ComponentTypeReferences(circuit, i + 1, library, after, unavailable)
         IN  [errors |-> here \o rest.errors, cache |-> rest.cache]

\* third loop: placement values that are not known holes
InvalidHoleReferences(circuit) ==
    Flatten([i \in DOMAIN circuit.components |->
        LET comp == circuit.components[i]
        IN  IF comp.placementKind /= "object" THEN <<>>
            ELSE Flatten([k \in DOMAIN comp.placement |->
                    IF ~HoleMapHas(comp.placement[k].holeId)
                    THEN <<createError("INVALID_HOLE_REFERENCE", comp.id, noMetadata)>>
                    ELSE <<>>])])

validateWireEndpoint(wire, reference, componentIds) ==
    IF Len(reference) = 0 THEN <<>>
    ELSE IF IncludesDot(reference)
    THEN LET compId == reference[1]
         IN  IF compId \notin componentIds
             THEN <<createError("INVALID_WIRE_COMPONENT", wire.id, noMetadata)>>
             ELSE <<>>
    ELSE IF ~HoleMapHas(reference[1])
         THEN <<createError("INVALID_WIRE_HOLE", wire.id, noMetadata)>>
         ELSE <<>>

\* last loop: one DUPLICATE_WIRE_ID per repeated occurrence of an id
DuplicateWireIds(circuit) ==
    Flatten([i \in DOMAIN circuit.wires |->
        LET wire == circuit.wires[i]
        IN  IF Truthy(wire.id) /\ \E j \in 1..(i - 1) : circuit.wires[j].id = wire.id
            THEN <<createError("DUPLICATE_WIRE_ID", wire.id, noMetadata)>>
            ELSE <<>>])

\* the result of validateReferences: its errors and the cache it leaves
validateReferences(circuit, library, cache, unavailable) ==
    LET types == ComponentTypeReferences(circuit, 1, library, cache, unavailable)
        componentIds == ComponentIds(circuit)
    IN  [errors |->
            DuplicateComponentIds(circuit)
            \o types.errors
            \o InvalidHoleReferences(circuit)
            \o Flatten([i \in DOMAIN circuit.wires |->
                    validateWireEndpoint(circuit.wires[i], circuit.wires[i].from, componentIds)
                    \o validateWireEndpoint(circuit.wires[i], circuit.wires[i].to, componentIds)])
            \o DuplicateWireIds(circuit),
         cache |-> types.cache]

\* circuit.components.forEach / circuit.wires.forEach on a value that is not
\* an array, or a property read on a null element, raises a TypeError
NotIterable(circuitJSON) ==
    \/ circuitJSON.rootKind /= "object"
    \/ circuitJSON.circuitKind /= "object"
    \/ circuitJSON.componentsKind /= "array"
    \/ circuitJSON.wiresKind /= "array"
    \/ \E i \in DOMAIN circuitJSON.components : circuitJSON.components[i].kind = "null"
    \/ \E i \in DOMAIN circuitJSON.wires : circuitJSON.wires[i].kind = "null"

validateReferencesThrows(circuitJSON) == NotIterable(circuitJSON)

(***************************************************************************)
(* LAYER 3: electrical rule check                                          *)
(***************************************************************************)
\* pinBuses: the placement entries whose hole has a bus, in placement order
PinBuses(component) ==
    Flatten([i \in DOMAIN component.placement |->
        LET bus == BusMapGet(component.placement[i].holeId)
        IN  IF Truthy(bus)
            THEN <<[pin |-> component.placement[i].pin,
                    hole |-> component.placement[i].holeId, bus |-> bus]>>
            ELSE <<>>])

\* the keys of busCounts in insertion order: each bus at its first occurrence
RECURSIVE BusKeys(_, _)
BusKeys(pinBuses, seen) ==
    IF pinBuses = <<>> THEN <<>>
    ELSE IF Head(pinBuses).bus \in seen THEN BusKeys(Tail(pinBuses), seen)
    ELSE <<Head(pinBuses).bus>> \o BusKeys(Tail(pinBuses), seen \cup {Head(pinBuses).bus})

\* a variant of checkBusConflicts that needs three pins on a bus
checkBusConflicts_ThreePins(component) ==
    IF component.placementKind /= "object" THEN <<>>
    ELSE LET pinBuses == PinBuses(component)
             buses == BusKeys(pinBuses, {})
             onBus(bus) == SelectSeq(pinBuses, LAMBDA pb : pb.bus = bus)
             pinsOf(bus) == [k \in DOMAIN onBus(bus) |-> onBus(bus)[k].pin]
             holesOf(bus) == [k \in DOMAIN onBus(bus) |-> onBus(bus)[k].hole]
         IN  Flatten([b \in DOMAIN buses |->
                IF Len(pinsOf(buses[b])) > 2
                THEN <<createError("SHORT_CIRCUIT", component.id,
                        [bus |-> buses[b], pins |-> pinsOf(buses[b]),
                         holes |-> holesOf(buses[b])])>>
                ELSE <<>>])

checkBusConflicts(component) ==
    IF component.placementKind /= "object" THEN <<>>
    ELSE LET pinBuses == PinBuses(component)
             buses == BusKeys(pinBuses, {})
             onBus(bus) == SelectSeq(pinBuses, LAMBDA pb : pb.bus = bus)
             pinsOf(bus) == [k \in DOMAIN onBus(bus) |-> onBus(bus)[k].pin]
             holesOf(bus) == [k \in DOMAIN onBus(bus) |-> onBus(bus)[k].hole]
         IN  Flatten([b \in DOMAIN buses |->
                IF Len(pinsOf(buses[b])) > 1
                THEN <<createError("SHORT_CIRCUIT", component.id,
                        [bus |-> buses[b], pins |-> pinsOf(buses[b]),
                         holes |-> holesOf(buses[b])])>>
                ELSE <<>>])

\* buildNets: one net per wire, the set of its two endpoints
buildNets(circuit) ==
    [i \in DOMAIN circuit.wires |-> {circuit.wires[i].from, circuit.wires[i].to}]

\* the ids of the holes of the given type among the raw-hole nodes of a net,
\* in hole-map order of the nodes (from before to)
NetHolesOfType(wire, type) ==
    LET nodes == IF wire.from = wire.to THEN <<wire.from>> ELSE <<wire.from, wire.to>>
        holeNodes == SelectSeq(nodes, LAMBDA n : ~IncludesDot(n))
        known == SelectSeq(holeNodes, LAMBDA n : HoleMapHas(Plain(n)))
        typed == SelectSeq(known, LAMBDA n : holeMap[Plain(n)].type = type)
    IN  [k \in DOMAIN typed |-> Plain(typed[k])]

\* a variant of checkPowerGroundShorts that reports a net with a rail hole of either kind
checkPowerGroundShorts_Either(circuit) ==
    Flatten([i \in DOMAIN buildNets(circuit) |->
        LET powerHoles == NetHolesOfType(circuit.wires[i], "power")
            groundHoles == NetHolesOfType(circuit.wires[i], "ground")
        IN  IF powerHoles /= <<>> \/ groundHoles /= <<>>
            THEN <<createError("POWER_GROUND_SHORT", "net-" \o ToString(i - 1),
                    [powerHoles |-> powerHoles, groundHoles |-> groundHoles])>>
            ELSE <<>>])

checkPowerGroundShorts(circuit) ==
    Flatten([i \in DOMAIN buildNets(circuit) |->
        LET powerHoles == NetHolesOfType(circuit.wires[i], "power")
            groundHoles == NetHolesOfType(circuit.wires[i], "ground")
        IN  IF powerHoles /= <<>> /\ groundHoles /= <<>>
            THEN <<createError("POWER_GROUND_SHORT", "net-" \o ToString(i - 1),
                    [powerHoles |-> powerHoles, groundHoles |-> groundHoles])>>
            ELSE <<>>])

validateElectricalRules(circuit) ==
    Flatten([i \in DOMAIN circuit.components |-> checkBusConflicts(circuit.components[i])])
    \o checkPowerGroundShorts(circuit)

\* n.includes('.') on an endpoint that is undefined raises a TypeError
validateElectricalRulesThrows(circuitJSON) ==
    \/ NotIterable(circuitJSON)
    \/ \E i \in DOMAIN circuitJSON.wires :
          Len(circuitJSON.wires[i].from) = 0 \/ Len(circuitJSON.wires[i].to) = 0

\* checkElectricalWarnings: the unconnected-component check is commented out
checkElectricalWarnings(circuit) == <<>>

checkElectricalWarningsThrows(circuitJSON) ==
    circuitJSON.rootKind /= "object"

(***************************************************************************)
(* LAYER 4: graph-based topology validation.  The graph (a Map from bus to *)
(* Set of buses) is the sequence of its keys in insertion order and, for   *)
(* every key, the sequence of its neighbours in insertion order.           *)
(***************************************************************************)
emptyGraph == [keys |-> <<>>, adj |-> [b \in {} |-> <<>>]]

\* graph.get(bus) || new Set()
Neighbors(graph, bus) == IF bus \in DOMAIN graph.adj THEN graph.adj[bus] ELSE <<>>

\* if (!graph.has(bus)) graph.set(bus, new Set())
EnsureNode(graph, bus) ==
    IF bus \in DOMAIN graph.adj THEN graph
    ELSE [keys |-> Append(graph.keys, bus), adj |-> graph.adj @@ (bus :> <<>>)]

\* graph.get(a).add(b)
AddNeighbor(graph, a, b) ==
    IF b \in Range(graph.adj[a]) THEN graph
    ELSE [graph EXCEPT !.adj[a] = Append(@, b)]

\* a variant of addEdge that records the edge at bus1 only
addEdge_OneWay(graph, bus1, bus2) ==
    IF ~Truthy(bus1) \/ ~Truthy(bus2) \/ bus1 = bus2 THEN graph
    ELSE AddNeighbor(EnsureNode(EnsureNode(graph, bus1), bus2), bus1, bus2)

addEdge(graph, bus1, bus2) ==
    IF ~Truthy(bus1) \/ ~Truthy(bus2) \/ bus1 = bus2 THEN graph
    ELSE AddNeighbor(AddNeighbor(EnsureNode(EnsureNode(graph, bus1), bus2), bus1, bus2),
                     bus2, bus1)

\* Object.values(comp.placement || {}).map(busMap.get).filter(Boolean)
PlacementBuses(component) ==
    LET all == [i \in DOMAIN component.placement |-> BusMapGet(component.placement[i].holeId)]
    IN  SelectSeq(all, LAMBDA bus : Truthy(bus))

\* for i, for j = i + 1: addEdge(buses[i], buses[j])
RECURSIVE AddPairEdges(_, _, _, _)
AddPairEdges(graph, buses, i, j) ==
    IF i > Len(buses) THEN graph
    ELSE IF j > Len(buses) THEN AddPairEdges(graph, buses, i + 1, i + 2)
    ELSE AddPairEdges(addEdge(graph, buses[i], buses[j]), buses, i, j + 1)

getEndpointBus(endpoint, circuit) ==
    IF ~IncludesDot(endpoint) THEN BusMapGet(Plain(endpoint))
    ELSE LET compId == endpoint[1]
             pinName == endpoint[2]
         IN  IF ~HasComponent(circuit, compId) THEN Null
             ELSE IF ComponentById(circuit, compId).placementKind /= "object" THEN Null
             ELSE LET holeId == PlacementGet(ComponentById(circuit, compId), pinName)
                  IN  IF Truthy(holeId) THEN BusMapGet(holeId) ELSE Null

RECURSIVE AddComponentEdges(_, _, _)
AddComponentEdges(graph, circuit, i) ==
    IF i > Len(circuit.components) THEN graph
    ELSE AddComponentEdges(
            AddPairEdges(graph, PlacementBuses(circuit.components[i]), 1, 2),
            circuit, i + 1)

RECURSIVE AddWireEdges(_, _, _)
AddWireEdges(graph, circuit, i) ==
    IF i > Len(circuit.wires) THEN graph
    ELSE LET fromBus == getEndpointBus(circuit.wires[i].from, circuit)
             toBus == getEndpointBus(circuit.wires[i].to, circuit)
         IN  AddWireEdges(IF Truthy(fromBus) /\ Truthy(toBus)
                          THEN addEdge(graph, fromBus, toBus) ELSE graph,
                          circuit, i + 1)

buildBusConnectivityGraph(circuit) ==
    AddWireEdges(AddComponentEdges(emptyGraph, circuit, 1), circuit, 1)

\* a variant of the loop that looks at the head of the queue and its neighbours only
PathExistsLoop_Shallow(graph, queue, visited, targetBus) ==
    /\ queue /= <<>>
    /\ \/ Head(queue) = targetBus
       \/ targetBus \in Range(Neighbors(graph, Head(queue)))

\* the while loop of pathExists, from the given queue and visited set
RECURSIVE PathExistsLoop(_, _, _, _)
PathExistsLoop(graph, queue, visited, targetBus) ==
    IF queue = <<>> THEN FALSE
    ELSE LET currentBus == Head(queue)
         IN  IF currentBus \in visited
             THEN PathExistsLoop(graph, Tail(queue), visited, targetBus)
             ELSE IF currentBus = targetBus THEN TRUE
             ELSE PathExistsLoop(graph, Tail(queue) \o Neighbors(graph, currentBus),
                                 visited \cup {currentBus}, targetBus)

\* a variant of pathExists that answers false for a start that is no node of the graph
pathExists_NodesOnly(graph, startBus, targetBus) ==
    IF startBus \notin DOMAIN graph.adj THEN FALSE
    ELSE IF startBus = targetBus THEN TRUE
    ELSE PathExistsLoop(graph, <<startBus>>, {}, targetBus)

pathExists(graph, startBus, targetBus) ==
    IF startBus = targetBus THEN TRUE
    ELSE PathExistsLoop(graph, <<startBus>>, {}, targetBus)

isGroundPin(endpoint, circuit) ==
    IF ~IncludesDot(endpoint) THEN FALSE
    ELSE IF ~HasComponent(circuit, endpoint[1]) THEN FALSE
    ELSE IncludesGND(endpoint[2])

isGPIOPin(endpoint, circuit) ==
    IF ~IncludesDot(endpoint) THEN FALSE
    ELSE IF ~HasComponent(circuit, endpoint[1]) THEN FALSE
    ELSE StartsWithGP(endpoint[2])

\* circuit.wires.filter: the wires with an endpoint on this bus
WiresOnBus(circuit, currentBus) ==
    SelectSeq(circuit.wires, LAMBDA w :
        \/ getEndpointBus(w.from, circuit) = currentBus
        \/ getEndpointBus(w.to, circuit) = currentBus)

RECURSIVE PathToGroundLoop(_, _, _, _)
PathToGroundLoop(graph, circuit, queue, visited) ==
    IF queue = <<>> THEN FALSE
    ELSE LET currentBus == Head(queue)
         IN  IF currentBus \in visited
             THEN PathToGroundLoop(graph, circuit, Tail(queue), visited)
             ELSE IF BusHasHoleOfType(currentBus, "ground") THEN TRUE
             ELSE IF \E k \in DOMAIN WiresOnBus(circuit, currentBus) :
                        \/ isGroundPin(WiresOnBus(circuit, currentBus)[k].from, circuit)
                        \/ isGroundPin(WiresOnBus(circuit, currentBus)[k].to, circuit)
                  THEN TRUE
             ELSE PathToGroundLoop(graph, circuit,
                                   Tail(queue) \o Neighbors(graph, currentBus),
                                   visited \cup {currentBus})

pathToGround(startBus, graph, circuit) ==
    IF ~Truthy(startBus) THEN FALSE
    ELSE PathToGroundLoop(graph, circuit, <<startBus>>, {})

RECURSIVE PathToPowerSourceLoop(_, _, _, _)
PathToPowerSourceLoop(graph, circuit, queue, visited) ==
    IF queue = <<>> THEN FALSE
    ELSE LET currentBus == Head(queue)
         IN  IF currentBus \in visited
             THEN PathToPowerSourceLoop(graph, circuit, Tail(queue), visited)
             ELSE IF BusHasHoleOfType(currentBus, "power") THEN TRUE
             ELSE IF \E k \in DOMAIN WiresOnBus(circuit, currentBus) :
                        \/ isGPIOPin(WiresOnBus(circuit, currentBus)[k].from, circuit)
                        \/ isGPIOPin(WiresOnBus(circuit, currentBus)[k].to, circuit)
                  THEN TRUE
             ELSE PathToPowerSourceLoop(graph, circuit,
                                        Tail(queue) \o Neighbors(graph, currentBus),
                                        visited \cup {currentBus})

\* the found field of the result of pathToPowerSource
pathToPowerSource(startBus, graph, circuit) ==
    IF ~Truthy(startBus) THEN FALSE
    ELSE PathToPowerSourceLoop(graph, circuit, <<startBus>>, {})

\* the types the series and path checks recognise
isLedTypeName(type) == type = "led" \/ type = "led-red-5mm"
isResistorTypeName(type) == type = "resistor" \/ type = "resistor-220"

\* circuit.components.find(c => test(c.type)): is there one, and the first one
HasOfType(circuit, Test(_)) ==
    \E i \in DOMAIN circuit.components : Test(circuit.components[i].type)
FirstOfType(circuit, Test(_)) ==
    LET idx == {i \in DOMAIN circuit.components : Test(circuit.components[i].type)}
    IN  circuit.components[CHOOSE i \in idx : \A j \in idx : i <= j]

checkSeriesConnections(circuit, graph) ==
    IF ~HasOfType(circuit, isLedTypeName) \/ ~HasOfType(circuit, isResistorTypeName)
    THEN <<>>
    ELSE LET led == FirstOfType(circuit, isLedTypeName)
             resistor == FirstOfType(circuit, isResistorTypeName)
             ledAnodeBus == BusMapGet(PlacementGet(led, "anode"))
             ledCathodeBus == BusMapGet(PlacementGet(led, "cathode"))
             resistorBuses == PlacementBuses(resistor)
             directConnection == \/ ledAnodeBus \in Range(resistorBuses)
                                 \/ ledCathodeBus \in Range(resistorBuses)
             connected == \E k \in DOMAIN resistorBuses :
                             \/ pathExists(graph, resistorBuses[k], ledAnodeBus)
                             \/ pathExists(graph, resistorBuses[k], ledCathodeBus)
         IN  IF ~directConnection /\ ~connected
             THEN <<createError("OPEN_CIRCUIT", "led-resistor",
                        [ledBuses |-> <<ledAnodeBus, ledCathodeBus>>,
                         resistorBuses |-> resistorBuses])>>
             ELSE <<>>

checkCompletePaths(circuit, graph) ==
    IF ~HasOfType(circuit, isLedTypeName) THEN <<>>
    ELSE LET led == FirstOfType(circuit, isLedTypeName)
             ledCathodeBus == BusMapGet(PlacementGet(led, "cathode"))
             ledAnodeBus == BusMapGet(PlacementGet(led, "anode"))
         IN  (IF ~pathToGround(ledCathodeBus, graph, circuit)
              THEN <<createError("NO_GROUND_PATH", led.id, [cathodeBus |-> ledCathodeBus])>>
              ELSE <<>>)
             \o
             (IF ~pathToPowerSource(ledAnodeBus, graph, circuit)
              THEN <<createError("NO_SOURCE_PATH", led.id, [anodeBus |-> ledAnodeBus])>>
              ELSE <<>>)

\* the while loop of findConnectedGroups: the group collected from the queue
RECURSIVE GroupLoop(_, _, _, _)
GroupLoop(graph, queue, visited, group) ==
    IF queue = <<>> THEN [visited |-> visited, group |-> group]
    ELSE LET node == Head(queue)
         IN  IF node \in visited THEN GroupLoop(graph, Tail(queue), visited, group)
             ELSE GroupLoop(graph, Tail(queue) \o Neighbors(graph, node),
                            visited \cup {node}, Append(group, node))

\* the for loop of findConnectedGroups over graph.keys(), from key i on
RECURSIVE GroupsFrom(_, _, _)
GroupsFrom(graph, i, visited) ==
    IF i > Len(graph.keys) THEN <<>>
    ELSE IF graph.keys[i] \in visited THEN GroupsFrom(graph, i + 1, visited)
    ELSE LET found == GroupLoop(graph, <<graph.keys[i]>>, visited, <<>>)
         IN  <<found.group>> \o GroupsFrom(graph, i + 1, found.visited)

findConnectedGroups(graph) == GroupsFrom(graph, 1, {})

\* a variant of checkIsolatedComponents that tolerates two groups
checkIsolatedComponents_OffByOne(circuit, graph) ==
    LET connectedGroups == findConnectedGroups(graph)
    IN  IF Len(connectedGroups) > 2
        THEN <<createError("DISCONNECTED_GROUPS", "circuit",
                [groupCount |-> Len(connectedGroups),
                 groupSizes |-> [k \in DOMAIN connectedGroups |-> Len(connectedGroups[k])]])>>
        ELSE <<>>

checkIsolatedComponents(circuit, graph) ==
    LET connectedGroups == findConnectedGroups(graph)
    IN  IF Len(connectedGroups) > 1
        THEN <<createError("DISCONNECTED_GROUPS", "circuit",
                [groupCount |-> Len(connectedGroups),
                 groupSizes |-> [k \in DOMAIN connectedGroups |-> Len(connectedGroups[k])]])>>
        ELSE <<>>

\* a variant of validateTopology that also stops at NO_CONNECTIONS for one wire
validateTopology_OneWire(circuit) ==
    IF Len(circuit.components) = 0
    THEN <<createError("EMPTY_CIRCUIT", "circuit", noMetadata)>>
    ELSE IF Len(circuit.wires) <= 1
    THEN <<createError("NO_CONNECTIONS", "circuit", noMetadata)>>
    ELSE LET graph == buildBusConnectivityGraph(circuit)
         IN  checkSeriesConnections(circuit, graph)
             \o checkCompletePaths(circuit, graph)
             \o checkIsolatedComponents(circuit, graph)

validateTopology(circuit) ==
    IF Len(circuit.components) = 0
    THEN <<createError("EMPTY_CIRCUIT", "circuit", noMetadata)>>
    ELSE IF Len(circuit.wires) = 0
    THEN <<createError("NO_CONNECTIONS", "circuit", noMetadata)>>
    ELSE LET graph == buildBusConnectivityGraph(circuit)
         IN  checkSeriesConnections(circuit, graph)
             \o checkCompletePaths(circuit, graph)
             \o checkIsolatedComponents(circuit, graph)

\* endpoint.includes('.') on an undefined endpoint, or led.placement.anode on a
\* component without placement, raises a TypeError
validateTopologyThrows(circuitJSON) ==
    \/ NotIterable(circuitJSON)
    \/ /\ Len(circuitJSON.components) > 0
       /\ Len(circuitJSON.wires) > 0
       /\ \/ \E i \in DOMAIN circuitJSON.wires :
                Len(circuitJSON.wires[i].from) = 0 \/ Len(circuitJSON.wires[i].to) = 0
          \/ /\ HasOfType(circuitJSON, isLedTypeName)
             /\ FirstOfType(circuitJSON, isLedTypeName).placementKind /= "object"

(***************************************************************************)
(* LAYER 5: component-specific rules                                       *)
(***************************************************************************)
\* endpoint.startsWith(`${component.id}.`), for ids without '.'
StartsWithComponent(endpoint, component) ==
    IncludesDot(endpoint) /\ endpoint[1] = component.id

\* wire.properties?.signal_type === 'pwm' || wire.properties?.function === 'signal'
isPWMSignal(wire) == wire.signal_type = "pwm" \/ wire.function = "signal"

\* the pin whose definition the microcontroller rule looks up for a wire
CheckedEndpoint(wire, component) ==
    IF StartsWithComponent(wire.from, component) THEN wire.from ELSE wire.to

\* a variant of the LED rule that asks for one of the two keys only
LedRules_EitherKey(component) ==
    LET anode == PlacementGet(component, "anode")
        cathode == PlacementGet(component, "cathode")
    IN  (IF ~Truthy(anode) /\ ~Truthy(cathode)
         THEN <<createError("INVALID_LED_PLACEMENT", component.id, noMetadata)>>
         ELSE <<>>)
        \o
        (IF Truthy(anode) /\ Truthy(cathode)
         THEN (IF BusHasHoleOfType(BusMapGet(cathode), "power")
               THEN <<createError("LED_REVERSED", component.id, noMetadata)>> ELSE <<>>)
              \o
              (IF BusHasHoleOfType(BusMapGet(anode), "ground")
               THEN <<createError("LED_REVERSED", component.id, noMetadata)>> ELSE <<>>)
         ELSE <<>>)

LedRules(component) ==
    LET anode == PlacementGet(component, "anode")
        cathode == PlacementGet(component, "cathode")
    IN  (IF ~Truthy(anode) \/ ~Truthy(cathode)
         THEN <<createError("INVALID_LED_PLACEMENT", component.id, noMetadata)>>
         ELSE <<>>)
        \o
        (IF Truthy(anode) /\ Truthy(cathode)
         THEN (IF BusHasHoleOfType(BusMapGet(cathode), "power")
               THEN <<createError("LED_REVERSED", component.id, noMetadata)>> ELSE <<>>)
              \o
              (IF BusHasHoleOfType(BusMapGet(anode), "ground")
               THEN <<createError("LED_REVERSED", component.id, noMetadata)>> ELSE <<>>)
         ELSE <<>>)

ResistorRules(component) ==
    IF Len(component.placement) /= 2
    THEN <<createError("INVALID_RESISTOR_PLACEMENT", component.id, noMetadata)>>
    ELSE <<>>

MicrocontrollerRules(component, componentDef, circuit) ==
    LET picoWires == SelectSeq(circuit.wires, LAMBDA w :
                        \/ StartsWithComponent(w.from, component)
                        \/ StartsWithComponent(w.to, component))
    IN  Flatten([k \in DOMAIN picoWires |->
            LET wire == picoWires[k]
                pinName == CheckedEndpoint(wire, component)[2]
            IN  IF isPWMSignal(wire)
                   /\ pinName \in DOMAIN componentDef.pwmCapable
                   /\ componentDef.pwmCapable[pinName] = "false"
                THEN <<createError("INVALID_PWM_PIN", component.id,
                            [pin |-> pinName, wireId |-> wire.id])>>
                ELSE <<>>])

validateAgainstComponentRules(component, componentDef, circuit) ==
    IF ~componentDef.hasValidation \/ ~componentDef.hasRules THEN <<>>
    ELSE (IF componentDef.electricalType = "led" THEN LedRules(component) ELSE <<>>)
         \o
         (IF componentDef.electricalType = "resistor" THEN ResistorRules(component) ELSE <<>>)
         \o
         (IF componentDef.electricalType = "microcontroller"
          THEN MicrocontrollerRules(component, componentDef, circuit) ELSE <<>>)

\* a TypeError inside validateAgainstComponentRules: component.placement.anode
\* without a placement, or w.from.startsWith on an undefined endpoint; the
\* caller's try/catch swallows it and skips the component
validateAgainstComponentRulesThrows(component, componentDef, circuit) ==
    /\ componentDef.hasValidation /\ componentDef.hasRules
    /\ \/ componentDef.electricalType = "led" /\ component.placementKind /= "object"
       \/ /\ componentDef.electricalType = "microcontroller"
          /\ \E i \in DOMAIN circuit.wires :
                Len(circuit.wires[i].from) = 0 \/ Len(circuit.wires[i].to) = 0

\* the for loop of validateComponentRules, from component i on
RECURSIVE ComponentRulesFrom(_, _, _, _, _)
ComponentRulesFrom(circuit, i, library, cache, unavailable) ==
    IF i > Len(circuit.components) THEN [errors |-> <<>>, cache |-> cache]
    ELSE LET comp == circuit.components[i]
             threw == loadComponentThrows(comp.type, library, cache, unavailable)
             componentDef == loadComponentResult(comp.type, cache)
             here == IF threw THEN <<>>
                     ELSE IF validateAgainstComponentRulesThrows(comp, componentDef, circuit)
                     THEN <<>>
                     ELSE validateAgainstComponentRules(comp, componentDef, circuit)
             after == loadComponentCache(comp.type, library, cache, unavailable)
             rest == ComponentRulesFrom(circuit, i + 1, library, after, unavailable)
         IN  [errors |-> here \o rest.errors, cache |-> rest.cache]

validateComponentRules(circuit, library, cache, unavailable) ==
    ComponentRulesFrom(circuit, 1, library, cache, unavailable)

validateComponentRulesThrows(circuitJSON) == NotIterable(circuitJSON)

(***************************************************************************)
(* validate(circuitJSON) as a state machine                                *)
(***************************************************************************)
VARIABLES
    circuitJSON,        \* the argument of the call
    unavailable,        \* the component files the server does not deliver
    componentLibrary,   \* this.componentLibrary: Null or "loaded"
    loadedComponents,   \* this.loadedComponents
    pc,                 \* where the call stands
    errors,             \* const errors
    warnings,           \* const warnings
    structuralErrors,   \* const structuralErrors
    referenceErrors,    \* const referenceErrors
    electricalErrors,   \* const electricalErrors
    topologyErrors,     \* const topologyErrors
    componentErrors,    \* const componentErrors
    console,            \* the 'Layer n: ...' lines written to the console
    result,             \* the value the call returns
    pathGraph,          \* pathExists: the graph argument
    pathStart,          \* pathExists: the startBus argument
    pathTarget,         \* pathExists: the targetBus argument
    pathAnswer,         \* pathExists: whether it has returned, and what
    calls,              \* the validate calls that share the validator, each with its
                        \* document, the await it stands at and its local arrays
    objects,            \* which parsed object each entry of loadedComponents is
    stores,             \* how many definition objects response.json() has produced
    firstLoaded,        \* per type, the object the first completed load returned
    lastLoad,           \* the loadComponent call that completed last
    renderedComponents, \* CircuitLoader: this.renderedComponents, in insertion order
    appWires,           \* BreadboardApp: this.wires
    occupied,           \* the holes that carry the class 'occupied'
    selectedPoint,      \* BreadboardApp: this.selectedPoint
    exported,           \* what exportCircuit() returned, if it was the last call
    occupants,          \* per occupied hole, data-occupant-type and data-occupied-by
    wireQueue,          \* GuidedWiringManager: this.wireQueue
    currentWireIndex,   \* GuidedWiringManager: this.currentWireIndex
    isActive,           \* GuidedWiringManager: this.isActive
    startPoint,         \* GuidedWiringManager: this.startPoint, <<>> for null
    waypoints,          \* GuidedWiringManager: this.waypoints
    isPulsingActive,    \* GuidedWiringManager: this.isPulsingActive
    timers              \* the callbacks of completeCurrentWire setTimeout holds

\* the variables of one validate call on a fresh validator
validateVars == <<circuitJSON, unavailable, componentLibrary, loadedComponents, pc, errors,
                  warnings, structuralErrors, referenceErrors, electricalErrors,
                  topologyErrors, componentErrors, console, result>>

\* the variables of a pathExists call
pathVars == <<pathGraph, pathStart, pathTarget, pathAnswer>>

\* the variables of the validate calls that share one validator
concurrentVars == <<calls, objects, stores, firstLoaded, lastLoad>>

\* the variables of the circuit loader and of the wiring canvas
wiringVars == <<wireQueue, currentWireIndex, isActive, startPoint, waypoints,
                isPulsingActive, timers>>
loaderVars == <<renderedComponents, appWires, occupied, selectedPoint, exported,
                occupants, wiringVars>>

\* the variables a validate call on a fresh validator leaves alone
beyond == <<pathVars, concurrentVars, loaderVars>>

vars == <<validateVars, beyond>>

noResult == [valid |-> FALSE, errors |-> <<>>, warnings |-> <<>>, returned |-> FALSE]
Returned(valid, errs, warns) ==
    [valid |-> valid, errors |-> errs, warnings |-> warns, returned |-> TRUE]

\* no pathExists call is under way
PathIdle ==
    /\ pathGraph = emptyGraph
    /\ pathStart = Undefined
    /\ pathTarget = Undefined
    /\ pathAnswer = [returned |-> FALSE, value |-> FALSE]

\* the names of the validate calls that share a validator
Calls == {"a", "b"}

noLoad == [type |-> Undefined, object |-> 0, fetched |-> FALSE, later |-> FALSE,
           ok |-> FALSE]

\* no call on a shared validator is under way
ConcurrentIdle ==
    /\ calls = [c \in {} |-> noResult]
    /\ objects = [t \in {} |-> 0]
    /\ stores = 0
    /\ firstLoaded = [t \in {} |-> 0]
    /\ lastLoad = noLoad

\* the page as app.init() leaves it: nothing loaded, drawn, selected or exported
LoaderIdle ==
    /\ renderedComponents = <<>>
    /\ appWires = <<>>
    /\ occupied = {}
    /\ selectedPoint = <<>>
    /\ exported = <<>>
    /\ occupants = <<>>
    /\ wireQueue = <<>>
    /\ currentWireIndex = 0
    /\ isActive = FALSE
    /\ startPoint = <<>>
    /\ waypoints = <<>>
    /\ isPulsingActive = FALSE
    /\ timers = 0

Init ==
    /\ circuitJSON \in Documents
    /\ unavailable \in UnavailableChoices
    /\ componentLibrary = Null
    /\ loadedComponents = [t \in {} |-> ledDefinition]
    /\ pc = "start"
    /\ errors = <<>>
    /\ warnings = <<>>
    /\ structuralErrors = <<>>
    /\ referenceErrors = <<>>
    /\ electricalErrors = <<>>
    /\ topologyErrors = <<>>
    /\ componentErrors = <<>>
    /\ console = <<>>
    /\ result = noResult
    /\ PathIdle
    /\ ConcurrentIdle
    /\ LoaderIdle

locals == <<structuralErrors, referenceErrors, electricalErrors, topologyErrors,
            componentErrors>>

\* init() resolves true: the library index is stored
InitLibraryLoaded ==
    /\ pc = "start"
    /\ componentLibrary = Null
    /\ componentLibrary' = "loaded"
    /\ pc' = "layer1"
    /\ UNCHANGED <<circuitJSON, unavailable, loadedComponents, errors, warnings,
                   locals, console, result>>
    /\ UNCHANGED beyond

\* a variant of the failed init() that records the error and goes on to layer 1
InitLibraryFailed_GoesOn ==
    /\ pc = "start"
    /\ componentLibrary = Null
    /\ errors' = Append(errors, createError("LIBRARY_LOAD_FAILED", "validator", noMetadata))
    /\ pc' = "layer1"
    /\ UNCHANGED <<circuitJSON, unavailable, componentLibrary, loadedComponents,
                   warnings, locals, console, result>>
    /\ UNCHANGED beyond

\* init() resolves false: validate returns LIBRARY_LOAD_FAILED
InitLibraryFailed ==
    /\ pc = "start"
    /\ componentLibrary = Null
    /\ errors' = Append(errors, createError("LIBRARY_LOAD_FAILED", "validator", noMetadata))
    /\ result' = Returned(FALSE, errors', warnings)
    /\ pc' = "returned"
    /\ UNCHANGED <<circuitJSON, unavailable, componentLibrary, loadedComponents,
                   warnings, locals, console>>
    /\ UNCHANGED beyond

\* a variant of AbortsAfterSchema that lets a single structural error through
AbortsAfterSchema_OffByOne(structural) == Len(structural) > 1

\* if (structuralErrors.length > 0) return
AbortsAfterSchema(structural) == Len(structural) > 0

\* Layer 1, up to the abort or to the await of layer 2
StructuralValidation ==
    /\ pc = "layer1"
    /\ console' = Append(console, "Layer 1")
    /\ IF validateSchemaThrows(circuitJSON)
       THEN /\ pc' = "threw"
            /\ UNCHANGED <<errors, structuralErrors, result>>
       ELSE /\ structuralErrors' = validateSchema(circuitJSON)
            /\ errors' = errors \o structuralErrors'
            /\ IF AbortsAfterSchema(structuralErrors')
               THEN /\ result' = Returned(FALSE, errors', warnings)
                    /\ pc' = "returned"
               ELSE /\ pc' = "layer2"
                    /\ UNCHANGED result
    /\ UNCHANGED <<circuitJSON, unavailable, componentLibrary, loadedComponents, warnings,
                   referenceErrors, electricalErrors, topologyErrors, componentErrors>>
    /\ UNCHANGED beyond

\* Layer 2
ReferenceValidation ==
    /\ pc = "layer2"
    /\ console' = Append(console, "Layer 2")
    /\ IF validateReferencesThrows(circuitJSON)
       THEN /\ pc' = "threw"
            /\ UNCHANGED <<errors, referenceErrors, loadedComponents>>
       ELSE LET references == validateReferences(circuitJSON, componentLibrary,
                                                 loadedComponents, unavailable)
            IN  /\ referenceErrors' = references.errors
                /\ loadedComponents' = references.cache
                /\ errors' = errors \o referenceErrors'
                /\ pc' = "layer3"
    /\ UNCHANGED <<circuitJSON, unavailable, componentLibrary, warnings, structuralErrors,
                   electricalErrors, topologyErrors, componentErrors, result>>
    /\ UNCHANGED beyond

\* Layer 3
ElectricalRuleCheck ==
    /\ pc = "layer3"
    /\ console' = Append(console, "Layer 3")
    /\ IF validateElectricalRulesThrows(circuitJSON)
       THEN /\ pc' = "threw"
            /\ UNCHANGED <<errors, electricalErrors, warnings>>
       ELSE /\ electricalErrors' = validateElectricalRules(circuitJSON)
            /\ errors' = errors \o electricalErrors'
            /\ warnings' = warnings \o checkElectricalWarnings(circuitJSON)
            /\ pc' = "layer4"
    /\ UNCHANGED <<circuitJSON, unavailable, componentLibrary, loadedComponents,
                   structuralErrors, referenceErrors, topologyErrors, componentErrors,
                   result>>
    /\ UNCHANGED beyond

\* a variant of Layer 4 that puts its diagnostics in front of the earlier ones
TopologyValidation_Prepends ==
    /\ pc = "layer4"
    /\ console' = Append(console, "Layer 4")
    /\ IF validateTopologyThrows(circuitJSON)
       THEN /\ pc' = "threw"
            /\ UNCHANGED <<errors, topologyErrors>>
       ELSE /\ topologyErrors' = validateTopology(circuitJSON)
            /\ errors' = topologyErrors' \o errors
            /\ pc' = "layer5"
    /\ UNCHANGED <<circuitJSON, unavailable, componentLibrary, loadedComponents, warnings,
                   structuralErrors, referenceErrors, electricalErrors, componentErrors,
                   result>>
    /\ UNCHANGED beyond

\* Layer 4
TopologyValidation ==
    /\ pc = "layer4"
    /\ console' = Append(console, "Layer 4")
    /\ IF validateTopologyThrows(circuitJSON)
       THEN /\ pc' = "threw"
            /\ UNCHANGED <<errors, topologyErrors>>
       ELSE /\ topologyErrors' = validateTopology(circuitJSON)
            /\ errors' = errors \o topologyErrors'
            /\ pc' = "layer5"
    /\ UNCHANGED <<circuitJSON, unavailable, componentLibrary, loadedComponents, warnings,
                   structuralErrors, referenceErrors, electricalErrors, componentErrors,
                   result>>
    /\ UNCHANGED beyond

\* a variant of IsValid that tolerates one error
IsValid_OffByOne(errs) == Len(errs) <= 1

\* const valid = errors.length === 0
IsValid(errs) == Len(errs) = 0

\* Layer 5 and the return of the result
ComponentRuleCheck ==
    /\ pc = "layer5"
    /\ console' = Append(console, "Layer 5")
    /\ IF validateComponentRulesThrows(circuitJSON)
       THEN /\ pc' = "threw"
            /\ UNCHANGED <<errors, componentErrors, loadedComponents, result>>
       ELSE LET rules == validateComponentRules(circuitJSON, componentLibrary,
                                                loadedComponents, unavailable)
            IN  /\ componentErrors' = rules.errors
                /\ loadedComponents' = rules.cache
                /\ errors' = errors \o componentErrors'
                /\ result' = Returned(IsValid(errors'), errors', warnings)
                /\ pc' = "returned"
    /\ UNCHANGED <<circuitJSON, unavailable, componentLibrary, warnings, structuralErrors,
                   referenceErrors, electricalErrors, topologyErrors>>
    /\ UNCHANGED beyond

Next ==
    \/ InitLibraryLoaded
    \/ InitLibraryFailed
    \/ StructuralValidation
    \/ ReferenceValidation
    \/ ElectricalRuleCheck
    \/ TopologyValidation
    \/ ComponentRuleCheck

Spec == Init /\ [][Next]_vars

(***************************************************************************)
(* pathExists on its own: a graph over a few buses, built by addEdge, and  *)
(* any two of the buses, or the undefined bus of an unknown hole, as the   *)
(* start and the target.                                                   *)
(***************************************************************************)
MaxPathBuses == 4

PathBuses == {"bus" \o ToString(n) \o "-top" : n \in 1..MaxPathBuses}

\* the graph addEdge builds from a set of two-bus edges
RECURSIVE GraphOf(_)
GraphOf(edges) ==
    IF edges = {} THEN emptyGraph
    ELSE LET edge == CHOOSE e \in edges : TRUE
             a == CHOOSE x \in edge : TRUE
             b == CHOOSE y \in edge : y /= a
         IN  addEdge(GraphOf(edges \ {edge}), a, b)

\* the two-bus edges a graph over the buses can have
PathEdges == {e \in SUBSET PathBuses : Cardinality(e) = 2}

\* no validate call is under way
ValidateIdle ==
    /\ circuitJSON = Document("object", "object", goodMetadata, "array", <<>>, "array", <<>>)
    /\ unavailable = {}
    /\ componentLibrary = Null
    /\ loadedComponents = [t \in {} |-> ledDefinition]
    /\ pc = "idle"
    /\ errors = <<>>
    /\ warnings = <<>>
    /\ structuralErrors = <<>>
    /\ referenceErrors = <<>>
    /\ electricalErrors = <<>>
    /\ topologyErrors = <<>>
    /\ componentErrors = <<>>
    /\ console = <<>>
    /\ result = noResult

PathInit ==
    /\ \E edges \in SUBSET PathEdges : pathGraph = GraphOf(edges)
    /\ pathStart \in PathBuses \cup {Undefined}
    /\ pathTarget \in PathBuses \cup {Undefined}
    /\ pathAnswer = [returned |-> FALSE, value |-> FALSE]
    /\ ValidateIdle
    /\ ConcurrentIdle
    /\ LoaderIdle

\* the call pathExists(graph, startBus, targetBus)
CallPathExists ==
    /\ ~pathAnswer.returned
    /\ pathAnswer' = [returned |-> TRUE,
                      value |-> pathExists(pathGraph, pathStart, pathTarget)]
    /\ UNCHANGED <<pathGraph, pathStart, pathTarget, validateVars, concurrentVars,
                   loaderVars>>

PathNext == CallPathExists

PathSpec == PathInit /\ [][PathNext]_vars

(***************************************************************************)
(* Two validate calls on one validator.  The host is single-threaded and   *)
(* cooperative: a call runs from one await to the next without being       *)
(* interrupted, and at an await the other call may run.  The awaits that   *)
(* touch the validator are the one of init() and the ones of               *)
(* loadComponent() in the loops of layer 2 and layer 5; loadComponent      *)
(* checks the cache before it awaits the fetch and stores the definition   *)
(* after it.  The registry is fixed: a file that is not delivered is not   *)
(* delivered to either call.                                               *)
(***************************************************************************)
MaxCallComponents == 2

\* the registries the two calls may face: the index not delivered included
SharedUnavailableChoices == UnavailableChoices \cup {{"library.json"}}

\* the documents the calls are made with
SharedDocuments ==
    { Document("object", "object", goodMetadata, "array", cs, "array", ws) :
        cs \in SubLists(ComponentPool, {2, 3, 8}, MaxCallComponents),
        ws \in {<<>>} }
    \cup { Document("object", "object", goodMetadata, "array", <<nullElement>>, "array", <<>>),
           Document("object", "object", goodMetadata, "missing", <<>>, "array", <<>>) }

\* a call that has not been made yet
NotCalled(document) ==
    [document |-> document, phase |-> "idle", index |-> 0, pending |-> "none",
     later |-> FALSE, object |-> 0, cacheAtStart |-> {}, overlapped |-> FALSE,
     typeErrors |-> <<>>, layerErrors |-> <<>>, ruleErrors |-> <<>>,
     result |-> noResult]

\* the first component from i on that the loop of layer 2 loads a type for
RECURSIVE NextTyped(_, _)
NextTyped(circuit, i) ==
    IF i > Len(circuit.components) THEN i
    ELSE IF Truthy(circuit.components[i].type) THEN i
    ELSE NextTyped(circuit, i + 1)

\* how loadComponent leaves its synchronous part: with the cached definition,
\* with a throw, or with the fetch of the component file under way
LoadBegins(componentType, library, cache) ==
    IF componentType \in DOMAIN cache THEN "hit"
    ELSE IF library = Null \/ componentType \notin libraryIndex THEN "threw"
    ELSE "fetch"

\* the call stands at await this.loadComponent(comp.type) for component i of a loop
AwaitLoad(call, loop, i, library, cache, ids, first) ==
    LET componentType == call.document.components[i].type
        begins == LoadBegins(componentType, library, cache)
    IN  [call EXCEPT !.phase = loop, !.index = i, !.pending = begins,
                     !.later = componentType \in DOMAIN first,
                     !.object = IF begins = "hit" THEN ids[componentType] ELSE 0]

\* a variant of the return in which errors is an array of the validator, kept from
\* the call that returned before
ReturnAll_SharedArray(call) ==
    LET earlier == {d \in Calls : calls[d].phase = "returned"}
        kept == IF earlier = {} THEN <<>>
                ELSE calls[CHOOSE d \in earlier : TRUE].result.errors
        errs == kept \o call.layerErrors \o call.ruleErrors
    IN  [call EXCEPT !.phase = "returned", !.pending = "none",
                     !.result = Returned(IsValid(errs), errs, <<>>)]

\* return { valid, errors, warnings } at the end of validate
ReturnAll(call) ==
    LET errs == call.layerErrors \o call.ruleErrors
    IN  [call EXCEPT !.phase = "returned", !.pending = "none",
                     !.result = Returned(IsValid(errs), errs, <<>>)]

\* the rest of layer 2, layers 3 and 4, and the entry of the loop of layer 5
EnterRules(call, library, cache, ids, first) ==
    LET circuit == call.document
        componentIds == ComponentIds(circuit)
        referenceErrs ==
            DuplicateComponentIds(circuit)
            \o call.typeErrors
            \o InvalidHoleReferences(circuit)
            \o Flatten([i \in DOMAIN circuit.wires |->
                    validateWireEndpoint(circuit.wires[i], circuit.wires[i].from, componentIds)
                    \o validateWireEndpoint(circuit.wires[i], circuit.wires[i].to, componentIds)])
            \o DuplicateWireIds(circuit)
        done == [call EXCEPT !.layerErrors =
                    referenceErrs \o validateElectricalRules(circuit)
                                  \o validateTopology(circuit)]
    IN  IF Len(circuit.components) = 0 THEN ReturnAll(done)
        ELSE AwaitLoad(done, "rules", 1, library, cache, ids, first)

\* the phases of a call that has been resumed and runs on to its next await
Running == {"enter", "refsNext", "rulesNext"}

\* the host runs one call at a time: a call is resumed only when no other is running
NoneRunning == \A d \in Calls : calls[d].phase \notin Running

\* a resumed call runs on to its next await: from the entry of layer 1 ("enter"),
\* or from the component call.index of the loop of layer 2 ("refsNext") or of
\* layer 5 ("rulesNext") that it has just handled
RunToAwait(call, library, cache, ids, first) ==
    LET circuit == call.document
        entering == call.phase = "enter"
    IN  IF entering /\ validateSchemaThrows(circuit)
        THEN [call EXCEPT !.phase = "threw"]
        ELSE IF entering /\ AbortsAfterSchema(validateSchema(circuit))
        THEN [call EXCEPT !.phase = "returned",
                          !.result = Returned(FALSE, validateSchema(circuit), <<>>)]
        ELSE IF call.phase = "rulesNext"
        THEN (IF call.index + 1 > Len(circuit.components)
              THEN ReturnAll(call)
              ELSE AwaitLoad(call, "rules", call.index + 1, library, cache, ids, first))
        ELSE LET i == NextTyped(circuit, IF entering THEN 1 ELSE call.index + 1)
             IN  IF i > Len(circuit.components)
                 THEN EnterRules(call, library, cache, ids, first)
                 ELSE AwaitLoad(call, "refs", i, library, cache, ids, first)

SharedInit ==
    /\ \E da \in SharedDocuments, db \in SharedDocuments :
          calls = [c \in Calls |-> NotCalled(IF c = "a" THEN da ELSE db)]
    /\ unavailable \in SharedUnavailableChoices
    /\ componentLibrary = Null
    /\ loadedComponents = [t \in {} |-> ledDefinition]
    /\ objects = [t \in {} |-> 0]
    /\ stores = 0
    /\ firstLoaded = [t \in {} |-> 0]
    /\ lastLoad = noLoad
    /\ circuitJSON = Document("object", "object", goodMetadata, "array", <<>>, "array", <<>>)
    /\ pc = "idle"
    /\ errors = <<>>
    /\ warnings = <<>>
    /\ structuralErrors = <<>>
    /\ referenceErrors = <<>>
    /\ electricalErrors = <<>>
    /\ topologyErrors = <<>>
    /\ componentErrors = <<>>
    /\ console = <<>>
    /\ result = noResult
    /\ PathIdle
    /\ LoaderIdle

\* what the steps of the shared validator leave alone
sharedFrame == <<circuitJSON, unavailable, pc, errors, warnings, locals, console, result,
                 pathVars, loaderVars>>

\* validate(document) is called: it awaits init() when the library is not there yet
BeginCall(c) ==
    /\ NoneRunning
    /\ calls[c].phase = "idle"
    /\ calls' = [calls EXCEPT ![c] =
            [@ EXCEPT !.cacheAtStart = DOMAIN loadedComponents,
                      !.overlapped = \E d \in Calls \ {c} :
                                        calls[d].phase \in {"init", "refs", "rules"},
                      !.phase = IF componentLibrary = Null THEN "init" ELSE "enter"]]
    /\ UNCHANGED <<componentLibrary, loadedComponents, objects, stores, firstLoaded,
                   lastLoad, sharedFrame>>

\* init() of call c resolves
InitResolves(c) ==
    /\ NoneRunning
    /\ calls[c].phase = "init"
    /\ IF "library.json" \in unavailable
       THEN /\ calls' = [calls EXCEPT ![c] =
                    [@ EXCEPT !.phase = "returned",
                              !.result = Returned(FALSE,
                                  <<createError("LIBRARY_LOAD_FAILED", "validator", noMetadata)>>,
                                  <<>>)]]
            /\ UNCHANGED componentLibrary
       ELSE /\ componentLibrary' = "loaded"
            /\ calls' = [calls EXCEPT ![c] = [@ EXCEPT !.phase = "enter"]]
    /\ UNCHANGED <<loadedComponents, objects, stores, firstLoaded, lastLoad, sharedFrame>>

\* the loadComponent call that call c awaits resolves or rejects, and the call
\* handles the component
LoadResolves(c) ==
    /\ NoneRunning
    /\ calls[c].phase \in {"refs", "rules"}
    /\ LET call == calls[c]
           circuit == call.document
           comp == circuit.components[call.index]
           fetched == call.pending = "fetch"
           failed == \/ call.pending = "threw"
                     \/ fetched /\ loadComponentThrows(comp.type, componentLibrary,
                                        [t \in {} |-> ledDefinition], unavailable)
           cache == IF fetched
                    THEN loadComponentCache(comp.type, componentLibrary,
                                            [t \in {} |-> ledDefinition], unavailable)
                         @@ loadedComponents
                    ELSE loadedComponents
           stored == fetched /\ comp.type \in DOMAIN cache
           returned == IF fetched THEN stores + 1 ELSE call.object
           throws == /\ call.phase = "rules" /\ ~failed
                     /\ validateAgainstComponentRulesThrows(comp, cache[comp.type], circuit)
           here == IF call.phase = "refs"
                   THEN (IF failed
                         THEN <<createError("UNKNOWN_COMPONENT_TYPE", comp.id, noMetadata)>>
                         ELSE IF comp.placementKind = "object"
                         THEN InvalidPinNames(comp, cache[comp.type])
                         ELSE <<>>)
                   ELSE (IF failed \/ throws THEN <<>>
                         ELSE validateAgainstComponentRules(comp, cache[comp.type], circuit))
       IN  /\ loadedComponents' = cache
           /\ objects' = IF stored
                         THEN [t \in DOMAIN cache |->
                                  IF t = comp.type THEN stores + 1 ELSE objects[t]]
                         ELSE objects
           /\ stores' = IF stored THEN stores + 1 ELSE stores
           /\ firstLoaded' = IF fetched /\ ~failed /\ comp.type \notin DOMAIN firstLoaded
                             THEN firstLoaded @@ (comp.type :> returned)
                             ELSE firstLoaded
           /\ lastLoad' = [type |-> comp.type, object |-> returned, fetched |-> fetched,
                           later |-> call.later, ok |-> ~failed]
           /\ calls' = [calls EXCEPT ![c] =
                    IF throws THEN [call EXCEPT !.phase = "threw"]
                    ELSE IF call.phase = "refs"
                    THEN [call EXCEPT !.typeErrors = @ \o here, !.phase = "refsNext"]
                    ELSE [call EXCEPT !.ruleErrors = @ \o here, !.phase = "rulesNext"]]
    /\ UNCHANGED <<componentLibrary, sharedFrame>>

\* the resumed call c runs on, without interruption, to its next await or its return
RunsOn(c) ==
    /\ calls[c].phase \in Running
    /\ calls' = [calls EXCEPT ![c] =
            RunToAwait(@, componentLibrary, loadedComponents, objects, firstLoaded)]
    /\ UNCHANGED <<componentLibrary, loadedComponents, objects, stores, firstLoaded,
                   lastLoad, sharedFrame>>

SharedNext ==
    \E c \in Calls : BeginCall(c) \/ InitResolves(c) \/ LoadResolves(c) \/ RunsOn(c)

SharedSpec == SharedInit /\ [][SharedNext]_vars

(***************************************************************************)
(* Properties of validate()                                                *)
(***************************************************************************)
\* the call has returned from the end of the pipeline, after all five layers
Completed == pc = "returned" /\ Len(console) = 5

\* the diagnostics of a result, as a set
ResultErrors == Range(result.errors)

SchemaDiagnosticTypes ==
    {"INVALID_JSON", "MISSING_CIRCUIT", "MISSING_METADATA", "MISSING_COMPONENTS",
     "MISSING_WIRES", "INVALID_METADATA", "MISSING_COMPONENT_ID",
     "MISSING_COMPONENT_TYPE", "MISSING_PLACEMENT", "EMPTY_PLACEMENT",
     "INVALID_HOLE_ID", "INVALID_PROPERTIES", "MISSING_WIRE_ID", "MISSING_WIRE_FROM",
     "MISSING_WIRE_TO"}

\* C1: every result validate() returns, on each of its three return paths, has
\* valid = true exactly when its errors list is empty, whatever its warnings are.
C1_ValidIffNoErrors ==
    result.returned =>
        /\ result.valid <=> (result.errors = <<>>)
        /\ \A i \in DOMAIN result.errors : result.errors[i].severity = "error"
        /\ result.errors = errors /\ result.warnings = warnings

\* a full pipeline run that ends with valid = true on a circuit with components and wires
C1_Witness ==
    /\ Completed /\ result.valid
    /\ Len(circuitJSON.components) >= 2 /\ Len(circuitJSON.wires) >= 1

\* C2: when the schema layer reports a diagnostic, validate() returns valid = false
\* and exactly the schema-layer diagnostics; no later layer has run.
C2_SchemaFailureAborts ==
    (/\ pc = "returned"
     /\ componentLibrary /= Null
     /\ validateSchema(circuitJSON) /= <<>>)
    =>  /\ result.valid = FALSE
        /\ result.errors = validateSchema(circuitJSON)
        /\ \A e \in ResultErrors : e.type \in SchemaDiagnosticTypes
        /\ console = <<"Layer 1">>
        /\ referenceErrors = <<>> /\ electricalErrors = <<>>
        /\ topologyErrors = <<>> /\ componentErrors = <<>>

\* a document without a components array has been rejected with MISSING_COMPONENTS
C2_Witness ==
    /\ pc = "returned"
    /\ circuitJSON.rootKind = "object" /\ circuitJSON.circuitKind = "object"
    /\ circuitJSON.componentsKind /= "array"
    /\ \E e \in ResultErrors : e.type = "MISSING_COMPONENTS"

\* C3 (as claimed): once the library is loaded, validate() never throws, whatever
\* the document, null array elements included.
C3_NeverThrows == pc /= "threw"

\* the minimal circuit of the documentation: the Pico declared with its position
\* placement, resistor 1J-5J, LED anode 5F / cathode 5E, wires GP0 -> 1J and 5E -> GND
MinimalCircuit ==
    Document("object", "object", goodMetadata,
             "array", <<ComponentPool[1], ComponentPool[2], ComponentPool[3]>>,
             "array", <<WirePool[1], WirePool[2]>>)

\* C4 (as claimed): with the library and every component file available, the valid
\* minimal circuit validates with valid = true and no errors.
C4_MinimalCircuitAccepted ==
    (/\ circuitJSON = MinimalCircuit
     /\ unavailable = {}
     /\ componentLibrary /= Null
     /\ pc = "returned")
    => (result.valid /\ result.errors = <<>>)

\* the placement pins of a component whose hole is on the given bus
PinsOnBus(component, bus) ==
    {component.placement[k].pin :
        k \in {j \in DOMAIN component.placement :
                  BusMapGet(component.placement[j].holeId) = bus}}

AllBuses == {holes[i].bus : i \in DOMAIN holes}

\* C5: in every circuit that passes the schema layer, a component with two or
\* more placement pins on one bus gets a SHORT_CIRCUIT error located at it, with
\* that bus and a pins list that holds those pins and has at least two entries.
C5_ShortCircuitReported ==
    Completed =>
        \A i \in DOMAIN circuitJSON.components : \A bus \in AllBuses :
            LET component == circuitJSON.components[i]
            IN  Cardinality(PinsOnBus(component, bus)) >= 2 =>
                    \E e \in ResultErrors :
                        /\ e.type = "SHORT_CIRCUIT"
                        /\ e.location = component.id
                        /\ e.bus = bus
                        /\ PinsOnBus(component, bus) \subseteq Range(e.pins)
                        /\ Len(e.pins) >= 2

\* a circuit with a component whose two pins share a bus has been validated to the end
C5_Witness ==
    /\ Completed
    /\ \E i \in DOMAIN circuitJSON.components : \E bus \in AllBuses :
          Cardinality(PinsOnBus(circuitJSON.components[i], bus)) >= 2
    /\ \E e \in ResultErrors : e.type = "SHORT_CIRCUIT" /\ Len(e.pins) = 2

(***************************************************************************)
(* The bus-connectivity graph stated as a relation, for the properties of  *)
(* the topology layer: two different buses are linked when a component has *)
(* placed pins on both or a wire has one endpoint on each.                 *)
(***************************************************************************)
ComponentBuses(component) ==
    {BusMapGet(component.placement[k].holeId) : k \in DOMAIN component.placement}
        \ {Undefined}

WireBuses(circuit, wire) ==
    {getEndpointBus(wire.from, circuit), getEndpointBus(wire.to, circuit)}

\* the links of the graph, each a set of two buses
Links(circuit) ==
    LET byComponents == UNION {SUBSET ComponentBuses(circuit.components[i]) :
                                  i \in DOMAIN circuit.components}
        byWires == {WireBuses(circuit, circuit.wires[i]) : i \in DOMAIN circuit.wires}
    IN  {link \in byComponents \cup byWires :
            Cardinality(link) = 2 /\ link \cap {Undefined, Null} = {}}

GraphNodes(circuit) == UNION Links(circuit)

\* the buses reachable from the buses of S over the given links
RECURSIVE ReachableOver(_, _)
ReachableOver(links, S) ==
    LET more == S \cup UNION {link \in links : link \cap S /= {}}
    IN  IF more = S THEN S ELSE ReachableOver(links, more)

ReachableFrom(circuit, S) == ReachableOver(Links(circuit), S)

ConnectedParts(circuit) ==
    LET links == Links(circuit)
    IN  {ReachableOver(links, {a}) : a \in UNION links}

\* components by the electricalType their registry definition declares
HasElectricalType(component, electricalType) ==
    /\ component.type \in libraryIndex
    /\ componentFiles[component.type].electricalType = electricalType

OfElectricalType(circuit, electricalType) ==
    {i \in DOMAIN circuit.components :
        HasElectricalType(circuit.components[i], electricalType)}

\* the circuit has one LED and one resistor, on no common bus and with no path
\* of links between a bus of the one and a bus of the other
LedAndResistorApart(circuit) ==
    /\ Cardinality(OfElectricalType(circuit, "led")) = 1
    /\ Cardinality(OfElectricalType(circuit, "resistor")) = 1
    /\ LET led == circuit.components[CHOOSE i \in OfElectricalType(circuit, "led") : TRUE]
           resistor == circuit.components[CHOOSE i \in OfElectricalType(circuit, "resistor") : TRUE]
       IN  /\ ComponentBuses(led) \cap ComponentBuses(resistor) = {}
           /\ ReachableFrom(circuit, ComponentBuses(resistor)) \cap ComponentBuses(led) = {}

\* C6 (as claimed): a circuit whose LED and resistor share no bus and are not
\* connected yields an OPEN_CIRCUIT error.
C6_OpenCircuitReported_AsClaimed ==
    (Completed /\ LedAndResistorApart(circuitJSON))
    => \E e \in ResultErrors : e.type = "OPEN_CIRCUIT"

\* C6 (amended): a circuit with at least one wire whose LED and resistor share no
\* bus and are not connected yields an OPEN_CIRCUIT error.
C6_OpenCircuitReported ==
    (Completed /\ LedAndResistorApart(circuitJSON) /\ Len(circuitJSON.wires) >= 1)
    => \E e \in ResultErrors : e.type = "OPEN_CIRCUIT"

\* a wired circuit with LED and resistor apart has been validated and reported
C6_Witness ==
    /\ Completed /\ LedAndResistorApart(circuitJSON) /\ Len(circuitJSON.wires) >= 1
    /\ \E e \in ResultErrors : e.type = "OPEN_CIRCUIT" /\ e.location = "led-resistor"

\* two resistor+LED sub-circuits with no link between them
TwoSubCircuits ==
    <<ComponentPool[2], ComponentPool[3], ComponentPool[4], ComponentPool[5]>>

\* every wire that links two buses stays inside one of the two sub-circuits
NoWireBetween(circuit) ==
    LET first == ComponentBuses(ComponentPool[2]) \cup ComponentBuses(ComponentPool[3])
        second == ComponentBuses(ComponentPool[4]) \cup ComponentBuses(ComponentPool[5])
    IN  \A i \in DOMAIN circuit.wires :
            LET link == WireBuses(circuit, circuit.wires[i])
            IN  (Cardinality(link) = 2 /\ link \cap {Undefined, Null} = {})
                => (link \subseteq first \/ link \subseteq second)

\* C7: for a circuit with a component and a wire, DISCONNECTED_GROUPS is reported
\* exactly when the graph has more than one connected part, groupCount is the number
\* of parts and groupSizes are their sizes; two separate resistor+LED sub-circuits
\* give groupCount 2.
C7_DisconnectedGroups ==
    (Completed /\ Len(circuitJSON.components) >= 1 /\ Len(circuitJSON.wires) >= 1)
    =>  LET parts == ConnectedParts(circuitJSON)
            reports == {e \in ResultErrors : e.type = "DISCONNECTED_GROUPS"}
        IN  /\ (reports /= {}) <=> (Cardinality(parts) > 1)
            /\ \A e \in reports :
                  /\ e.groupCount = Cardinality(parts)
                  /\ Len(e.groupSizes) = e.groupCount
                  /\ \A n \in Range(e.groupSizes) \cup {Cardinality(P) : P \in parts} :
                        Cardinality({k \in DOMAIN e.groupSizes : e.groupSizes[k] = n})
                            = Cardinality({P \in parts : Cardinality(P) = n})
                  /\ SeqSum(e.groupSizes) = Cardinality(GraphNodes(circuitJSON))
            /\ (circuitJSON.components = TwoSubCircuits /\ NoWireBetween(circuitJSON)) =>
                  \E e \in reports : e.groupCount = 2

\* the two separate sub-circuits, with a wire, have been validated
C7_Witness ==
    /\ Completed
    /\ circuitJSON.components = TwoSubCircuits /\ Len(circuitJSON.wires) >= 1
    /\ NoWireBetween(circuitJSON)
    /\ \E e \in ResultErrors : e.type = "DISCONNECTED_GROUPS" /\ e.groupSizes = <<3, 3>>

\* C8: once the schema layer passes, layers 2, 3, 4 and 5 all run in that order,
\* whatever the earlier layers reported (no layer stops or throws), and the errors
\* returned are the diagnostics of layer 2, then 3, then 4, then 5.
C8_LayersAccumulate ==
    /\ (pc \in {"layer2", "layer3", "layer4", "layer5"} =>
            /\ structuralErrors = <<>>
            /\ errors = referenceErrors \o electricalErrors \o topologyErrors)
    /\ (Len(console) >= 2 =>
            /\ pc /= "threw"
            /\ pc = <<"layer2", "layer3", "layer4", "layer5", "returned">>[Len(console)]
            /\ console = SubSeq(<<"Layer 1", "Layer 2", "Layer 3", "Layer 4", "Layer 5">>,
                                1, Len(console)))
    /\ (pc = "returned" /\ Len(console) >= 2) =>
            /\ console = <<"Layer 1", "Layer 2", "Layer 3", "Layer 4", "Layer 5">>
            /\ result.errors = referenceErrors \o electricalErrors
                                   \o topologyErrors \o componentErrors
            /\ referenceErrors = validateReferences(circuitJSON, componentLibrary,
                                                    loadedComponents, unavailable).errors
            /\ electricalErrors = validateElectricalRules(circuitJSON)
            /\ topologyErrors = validateTopology(circuitJSON)

\* a run in which each of the layers 2 to 5 reported something
C8_Witness ==
    /\ Completed
    /\ referenceErrors /= <<>> /\ electricalErrors /= <<>>
    /\ topologyErrors /= <<>> /\ componentErrors /= <<>>

\* the pins a component's type defines, none when the type is not in the registry
DefinedPins(component) ==
    IF component.type \in libraryIndex THEN Range(componentFiles[component.type].pins)
    ELSE {}

EndpointResolves(circuit, endpoint) ==
    IF IncludesDot(endpoint)
    THEN /\ HasComponent(circuit, endpoint[1])
         /\ endpoint[2] \in DefinedPins(ComponentById(circuit, endpoint[1]))
    ELSE \E i \in DOMAIN holes : holes[i].id = Plain(endpoint)

\* C9 (as claimed): when layer 2 reports nothing, every placement pin is a pin of
\* the component's type, every placement hole and raw wire endpoint is a hole, and
\* every componentId.pinName endpoint names a component of the circuit and one of
\* the pins of its type.
C9_ReferencesResolve ==
    (/\ pc \in {"layer3", "layer4", "layer5", "returned"}
     /\ Len(console) >= 2
     /\ referenceErrors = <<>>)
    =>  /\ \A i \in DOMAIN circuitJSON.components :
              \A k \in DOMAIN circuitJSON.components[i].placement :
                  LET entry == circuitJSON.components[i].placement[k]
                  IN  /\ entry.pin \in DefinedPins(circuitJSON.components[i])
                      /\ \E h \in DOMAIN holes : holes[h].id = entry.holeId
        /\ \A i \in DOMAIN circuitJSON.wires :
              /\ EndpointResolves(circuitJSON, circuitJSON.wires[i].from)
              /\ EndpointResolves(circuitJSON, circuitJSON.wires[i].to)

\* the pins of the component an endpoint of the wire touches
TouchedPins(wire, component) ==
    {ep[2] : ep \in {e \in {wire.from, wire.to} : StartsWithComponent(e, component)}}

\* C10 (as claimed): for a microcontroller-type component, every PWM/signal wire
\* and every pin of the component the wire touches, at either end, whose definition
\* has pwmCapable false, there is an INVALID_PWM_PIN error naming the pin and the wire.
C10_PwmPinReported ==
    Completed =>
        \A i \in DOMAIN circuitJSON.components : \A w \in DOMAIN circuitJSON.wires :
            LET component == circuitJSON.components[i]
                wire == circuitJSON.wires[w]
            IN  (/\ HasElectricalType(component, "microcontroller")
                 /\ component.type \notin unavailable
                 /\ isPWMSignal(wire))
                => \A pin \in TouchedPins(wire, component) :
                      (/\ pin \in DOMAIN componentFiles[component.type].pwmCapable
                       /\ componentFiles[component.type].pwmCapable[pin] = "false")
                      => \E e \in ResultErrors :
                            /\ e.type = "INVALID_PWM_PIN"
                            /\ e.location = component.id
                            /\ e.pin = pin
                            /\ e.wireId = wire.id


\* the keys of a component's placement object
PlacementKeys(component) ==
    {component.placement[k].pin : k \in DOMAIN component.placement}

\* C11: in every circuit that passes the schema layer, a component whose registry
\* definition is served and declares electricalType 'led' and whose placement lacks
\* the anode key or the cathode key gets an INVALID_LED_PLACEMENT error at its id.
C11_LedPlacementReported ==
    Completed =>
        \A i \in DOMAIN circuitJSON.components :
            LET component == circuitJSON.components[i]
            IN  (/\ HasElectricalType(component, "led")
                 /\ component.type \notin unavailable
                 /\ ~({"anode", "cathode"} \subseteq PlacementKeys(component)))
                => \E k \in DOMAIN componentErrors :
                      /\ componentErrors[k].type = "INVALID_LED_PLACEMENT"
                      /\ componentErrors[k].location = component.id
                      /\ componentErrors[k] \in ResultErrors

\* an LED with an anode and no cathode has been validated to the end
C11_Witness ==
    /\ Completed
    /\ \E i \in DOMAIN circuitJSON.components :
          /\ HasElectricalType(circuitJSON.components[i], "led")
          /\ PlacementKeys(circuitJSON.components[i]) = {"anode"}
    /\ \E e \in ResultErrors : e.type = "INVALID_LED_PLACEMENT" /\ e.location = "led3"


\* the kinds of the holes a raw wire endpoint names, none for a pin reference
EndpointKinds(endpoint) ==
    IF IncludesDot(endpoint) THEN {}
    ELSE {holes[i].type : i \in {j \in DOMAIN holes : holes[j].id = Plain(endpoint)}}

\* both endpoints are raw holes, one of kind power and the other of kind ground
DirectPowerGround(wire) ==
    \/ "power" \in EndpointKinds(wire.from) /\ "ground" \in EndpointKinds(wire.to)
    \/ "ground" \in EndpointKinds(wire.from) /\ "power" \in EndpointKinds(wire.to)

BusesOfKind(kind) == {holes[i].bus : i \in {j \in DOMAIN holes : holes[j].type = kind}}

\* power and ground are connected, but by no single wire between two raw holes:
\* over links of the bus graph, or by a wire from a power hole to a ground pin
TransitivePowerGround(circuit) ==
    /\ \A i \in DOMAIN circuit.wires : ~DirectPowerGround(circuit.wires[i])
    /\ \/ ReachableFrom(circuit, BusesOfKind("power")) \cap BusesOfKind("ground") /= {}
       \/ \E i \in DOMAIN circuit.wires :
             \/ /\ "power" \in EndpointKinds(circuit.wires[i].from)
                /\ isGroundPin(circuit.wires[i].to, circuit)
             \/ /\ "power" \in EndpointKinds(circuit.wires[i].to)
                /\ isGroundPin(circuit.wires[i].from, circuit)

NetLocation(i) == "net-" \o ToString(i - 1)

\* C12: in every circuit that passes the schema layer, POWER_GROUND_SHORT is reported
\* for a wire exactly when both its endpoints are raw holes, one of kind power and one
\* of kind ground; SHORT_CIRCUIT only arises from a component with two pins on one
\* bus, so a power-ground connection that is only transitive yields neither.
C12_DirectShortsOnly ==
    Completed =>
        /\ \A i \in DOMAIN circuitJSON.wires :
              DirectPowerGround(circuitJSON.wires[i])
              <=> \E e \in ResultErrors :
                      e.type = "POWER_GROUND_SHORT" /\ e.location = NetLocation(i)
        /\ \A e \in ResultErrors :
              /\ e.type = "POWER_GROUND_SHORT" =>
                    \E i \in DOMAIN circuitJSON.wires : e.location = NetLocation(i)
              /\ e.type = "SHORT_CIRCUIT" =>
                    \E i \in DOMAIN circuitJSON.components :
                        /\ circuitJSON.components[i].id = e.location
                        /\ Cardinality(PinsOnBus(circuitJSON.components[i], e.bus)) >= 2
        /\ (/\ TransitivePowerGround(circuitJSON)
            /\ \A i \in DOMAIN circuitJSON.components : \A bus \in AllBuses :
                  Cardinality(PinsOnBus(circuitJSON.components[i], bus)) < 2)
           => \A e \in ResultErrors : e.type \notin {"POWER_GROUND_SHORT", "SHORT_CIRCUIT"}

\* a circuit that joins the power rail to the ground rail through two wires and a
\* bus of the grid has been validated to the end
C12_Witness ==
    /\ Completed
    /\ \A i \in DOMAIN circuitJSON.wires : ~DirectPowerGround(circuitJSON.wires[i])
    /\ ReachableFrom(circuitJSON, BusesOfKind("power")) \cap BusesOfKind("ground") /= {}
    /\ \A e \in ResultErrors : e.type \notin {"POWER_GROUND_SHORT", "SHORT_CIRCUIT"}

\* a circuit with a wire from the power rail to a ground pin of the Pico has been
\* validated to the end
C12_PinWitness ==
    /\ Completed
    /\ \A i \in DOMAIN circuitJSON.wires : ~DirectPowerGround(circuitJSON.wires[i])
    /\ \E i \in DOMAIN circuitJSON.wires :
          /\ "power" \in EndpointKinds(circuitJSON.wires[i].from)
          /\ isGroundPin(circuitJSON.wires[i].to, circuitJSON)
    /\ \A e \in ResultErrors : e.type \notin {"POWER_GROUND_SHORT", "SHORT_CIRCUIT"}


\* type.includes('led') and type.includes('resistor') on the type names that occur
\* in the documents of the model
ContainsLed(type) == type \in {"led", "led-red-5mm", "led-green-5mm"}
ContainsResistor(type) == type \in {"resistor", "resistor-220"}

LedLike(circuit) ==
    {i \in DOMAIN circuit.components : ContainsLed(circuit.components[i].type)}
ResistorLike(circuit) ==
    {i \in DOMAIN circuit.components : ContainsResistor(circuit.components[i].type)}

\* the two components are on no common bus and no path of links joins them
Apart(circuit, led, resistor) ==
    /\ ComponentBuses(led) \cap ComponentBuses(resistor) = {}
    /\ ReachableFrom(circuit, ComponentBuses(resistor)) \cap ComponentBuses(led) = {}

\* C13 (as claimed): in a wired circuit with one component whose type name contains
\* 'led' and one whose type name contains 'resistor', the pair being on no common bus
\* and not mutually reachable yields OPEN_CIRCUIT.
C13_PatternMatchedSeriesCheck ==
    (/\ Completed /\ Len(circuitJSON.wires) >= 1 /\ unavailable = {}
     /\ Cardinality(LedLike(circuitJSON)) = 1
     /\ Cardinality(ResistorLike(circuitJSON)) = 1)
    => \A l \in LedLike(circuitJSON) : \A r \in ResistorLike(circuitJSON) :
          Apart(circuitJSON, circuitJSON.components[l], circuitJSON.components[r])
          => \E e \in ResultErrors : e.type = "OPEN_CIRCUIT"


\* C14: pathExists answers true whenever start and target are the same bus, for
\* every graph, the empty graph and a bus that is no node of the graph included.
C14_SameBusReachable ==
    (pathAnswer.returned /\ pathStart = pathTarget) => pathAnswer.value

\* pathExists has answered for a bus against itself on the empty graph
C14_Witness ==
    /\ pathAnswer.returned /\ pathAnswer.value
    /\ pathStart = pathTarget /\ pathStart \in PathBuses
    /\ pathGraph = emptyGraph


\* what validate returns, or that it throws, when the call is the only one on a
\* fresh validator
RunAlone(document, unavailableFiles) ==
    IF "library.json" \in unavailableFiles
    THEN [threw |-> FALSE,
          result |-> Returned(FALSE,
                        <<createError("LIBRARY_LOAD_FAILED", "validator", noMetadata)>>, <<>>)]
    ELSE IF validateSchemaThrows(document) THEN [threw |-> TRUE, result |-> noResult]
    ELSE LET structural == validateSchema(document)
             references == validateReferences(document, "loaded",
                                              [t \in {} |-> ledDefinition], unavailableFiles)
             rules == validateComponentRules(document, "loaded", references.cache,
                                             unavailableFiles)
             errs == references.errors \o validateElectricalRules(document)
                        \o validateTopology(document) \o rules.errors
         IN  IF AbortsAfterSchema(structural)
             THEN [threw |-> FALSE, result |-> Returned(FALSE, structural, <<>>)]
             ELSE [threw |-> FALSE, result |-> Returned(IsValid(errs), errs, <<>>)]

Finished(c) == calls[c].phase \in {"returned", "threw"}

\* C15: two validate calls on the same validator with the same document end the same
\* way and return the same result, diagnostics in the same order, whether the call
\* found the registry cache empty or filled by the other call.
C15_RepeatedCallsAgree ==
    \A c \in Calls, d \in Calls :
        (Finished(c) /\ Finished(d) /\ calls[c].document = calls[d].document)
        => /\ calls[c].phase = calls[d].phase
           /\ calls[c].result = calls[d].result

\* the document has been validated twice, the second time after the first call had
\* returned and filled the cache, and has diagnostics of a component to report
C15_Witness ==
    /\ calls["a"].phase = "returned" /\ calls["b"].phase = "returned"
    /\ calls["a"].document = calls["b"].document
    /\ calls["a"].cacheAtStart = {} /\ calls["b"].cacheAtStart /= {}
    /\ ~calls["b"].overlapped
    /\ calls["b"].typeErrors /= <<>>
    /\ calls["b"].result.errors /= <<>>

\* C16 (as claimed): a loadComponent call made after a call for the same type has
\* completed successfully performs no fetch and returns the object that call returned.
C16_LaterLoadsReturnSameObject ==
    lastLoad.later =>
        /\ lastLoad.ok
        /\ ~lastLoad.fetched
        /\ lastLoad.object = firstLoaded[lastLoad.type]

\* C17: under every interleaving of two validate calls at their awaits, each call ends
\* the way it ends when it runs alone on a fresh validator, with the same result.
C17_InterleavingSafe ==
    \A c \in Calls :
        Finished(c) =>
            LET alone == RunAlone(calls[c].document, unavailable)
            IN  /\ (calls[c].phase = "threw") <=> alone.threw
                /\ calls[c].result = alone.result

\* both calls have returned after running interleaved, each having fetched the same
\* component file while the other one's fetch was under way
C17_Witness ==
    /\ calls["a"].phase = "returned" /\ calls["b"].phase = "returned"
    /\ calls["a"].overlapped \/ calls["b"].overlapped
    /\ calls["a"].cacheAtStart = {} /\ calls["b"].cacheAtStart = {}
    /\ stores > Cardinality(DOMAIN loadedComponents)
    /\ calls["a"].result.errors /= <<>>

\* C18 (as claimed): an entry of the registry cache, once stored, is never removed
\* and never replaced by another object.
C18_CacheAppendOnly ==
    [][\A t \in DOMAIN loadedComponents :
          /\ t \in DOMAIN loadedComponents'
          /\ objects'[t] = objects[t]]_vars



(***************************************************************************)
(* The circuit loader and the wiring canvas: CircuitLoader.loadCircuit,    *)
(* the clicks that draw a wire, and CircuitLoader.exportCircuit.  Lengths  *)
(* are in units of 2 micrometres, so that every figure of the              *)
(* configuration is an integer.                                            *)
(***************************************************************************)
MaxLoaderComponents == 2
MaxLoaderWires == 1
MaxAppWires == 2
MaxWaypoints == 1
MaxTimers == 1

\* BREADBOARD_CONFIG.grid and layout: hole_spacing 8.982, origin x 17.25 and
\* offset 3.35, start_y_top 45.05, start_y_bottom 107.894, rail y_positions
hole_spacing == 4491
originX == 8625
originOffset == 1675
start_y_top == 22525
start_y_bottom == 53947
railYTop == <<4575, 9075>>
railYBottom == <<85399, 89899>>

\* LED_5MM_CONFIG.pin_spacing.horizontal (8.982) and the 1 mm of slack
ledPinSpacing == 4491
oneMillimetre == 500
\* RESISTOR_CONFIG.pin_spacing.min (8.982) and max (44.91)
resistorSpacingMin == 4491
resistorSpacingMax == 22455

\* x and y of the holes of one section of the main grid
MainGridXY(startY) ==
    [k \in 1..(Len(rowsTop) * MaxColumns) |->
        LET rowIndex == (k - 1) \div MaxColumns
            col == ((k - 1) % MaxColumns) + 1
        IN  [x |-> originX - originOffset + (col - 1) * hole_spacing,
             y |-> startY + rowIndex * hole_spacing]]

\* x and y of the holes of one rail
RailXY(y) ==
    [k \in 1..(MaxRailGroups * MaxHolesInGroup) |->
        LET group == (k - 1) \div MaxHolesInGroup
            holeInGroup == (k - 1) % MaxHolesInGroup
        IN  [x |-> originX + (group * 6 + holeInGroup) * hole_spacing, y |-> y]]

\* the x and y of BREADBOARD_HOLES, in the order of holes
holeXY ==
    MainGridXY(start_y_top) \o MainGridXY(start_y_bottom)
    \o RailXY(railYTop[1]) \o RailXY(railYTop[2])
    \o RailXY(railYBottom[1]) \o RailXY(railYBottom[2])

\* breadboardHoles.find(h => h.id === id): the index of the first such hole, or 0
FindHole(id) ==
    LET idx == {i \in DOMAIN holes : holes[i].id = id}
    IN  IF idx = {} THEN 0 ELSE CHOOSE i \in idx : \A j \in idx : i <= j

Distance(a, b) == IF a < b THEN b - a ELSE a - b

\* Math.sqrt(deltaX*deltaX + deltaY*deltaY) < limit, and > limit
SpacingBelow(deltaX, deltaY, limit) ==
    deltaX < limit /\ deltaY < limit /\ deltaX * deltaX + deltaY * deltaY < limit * limit
SpacingAbove(deltaX, deltaY, limit) ==
    deltaX > limit \/ deltaY > limit \/ deltaX * deltaX + deltaY * deltaY > limit * limit

\* !placement[key]
PlacementFalsy(component, key) ==
    \A i \in DOMAIN component.placement :
        component.placement[i].pin = key =>
            component.placement[i].isString /\ ~Truthy(component.placement[i].holeId)

\* validatePicoPlacement(placement).valid: position is an object whose x and y are
\* numbers between 0 and 1000 (the position object of the documents of the model)
validatePicoPlacement(component) ==
    \E i \in DOMAIN component.placement :
        component.placement[i].pin = "position" /\ ~component.placement[i].isString

\* validateResistorPlacement(placement, breadboardHoles).valid
validateResistorPlacement(component) ==
    /\ ~PlacementFalsy(component, "pin0") /\ ~PlacementFalsy(component, "pin1")
    /\ LET pin0Hole == FindHole(PlacementGet(component, "pin0"))
           pin1Hole == FindHole(PlacementGet(component, "pin1"))
       IN  /\ pin0Hole /= 0 /\ pin1Hole /= 0
           /\ holes[pin0Hole].bus /= holes[pin1Hole].bus
           /\ LET deltaX == Distance(holeXY[pin1Hole].x, holeXY[pin0Hole].x)
                  deltaY == Distance(holeXY[pin1Hole].y, holeXY[pin0Hole].y)
              IN  /\ ~SpacingBelow(deltaX, deltaY, resistorSpacingMin)
                  /\ ~SpacingAbove(deltaX, deltaY, resistorSpacingMax)

\* validateLEDPlacement(placement, breadboardHoles).valid
validateLEDPlacement(component) ==
    /\ ~PlacementFalsy(component, "cathode") /\ ~PlacementFalsy(component, "anode")
    /\ LET cathodeHole == FindHole(PlacementGet(component, "cathode"))
           anodeHole == FindHole(PlacementGet(component, "anode"))
       IN  /\ cathodeHole /= 0 /\ anodeHole /= 0
           /\ LET deltaX == Distance(holeXY[anodeHole].x, holeXY[cathodeHole].x)
                  deltaY == Distance(holeXY[anodeHole].y, holeXY[cathodeHole].y)
              IN  \/ deltaX < ledPinSpacing + oneMillimetre /\ deltaY < oneMillimetre
                  \/ deltaY < ledPinSpacing + oneMillimetre /\ deltaX < oneMillimetre
           /\ holes[cathodeHole].bus /= holes[anodeHole].bus

\* adapter.validate(placement, BREADBOARD_HOLES).valid for the adapter of the type
adapterValidate(component) ==
    IF component.type = "raspberry-pi-pico" THEN validatePicoPlacement(component)
    ELSE IF component.type = "resistor-220" THEN validateResistorPlacement(component)
    ELSE validateLEDPlacement(component)

\* markHoleOccupied(holeId, occupantType, occupantId): the attributes are overwritten
markHoleOccupied(map, holeId, occupantType, occupantId) ==
    IF FindHole(holeId) = 0 THEN map
    ELSE [h \in DOMAIN map \cup {holeId} |->
             IF h = holeId THEN [type |-> occupantType, by |-> occupantId] ELSE map[h]]

\* markHoleOccupied for each hole of a set of distinct holes
markHolesOccupied(map, holeIds, occupantType, occupantId) ==
    [h \in DOMAIN map \cup {id \in holeIds : FindHole(id) /= 0} |->
        IF h \in holeIds THEN [type |-> occupantType, by |-> occupantId] ELSE map[h]]

\* clearHoleOccupation(holeId)
clearHoleOccupation(map, holeId) == [h \in DOMAIN map \ {holeId} |-> map[h]]

\* adapter.getRequiredHoles(placement)
getRequiredHoles(component) ==
    IF component.type = "raspberry-pi-pico" THEN {}
    ELSE IF component.type = "resistor-220"
         THEN {PlacementGet(component, "pin0"), PlacementGet(component, "pin1")}
         ELSE {PlacementGet(component, "cathode"), PlacementGet(component, "anode")}

\* renderComponent(componentData) returns without throwing
renderComponentSucceeds(component, occupiedHoles) ==
    /\ component.kind = "object"
    /\ Truthy(component.id) /\ Truthy(component.type)
    /\ component.placementKind = "object"
    /\ component.type \in libraryIndex
    /\ adapterValidate(component)
    /\ getRequiredHoles(component) \cap occupiedHoles = {}

\* this.renderedComponents.set(id, { type, placement, ... })
MapSet(map, component) ==
    IF \E i \in DOMAIN map : map[i].id = component.id
    THEN [i \in DOMAIN map |-> IF map[i].id = component.id THEN component ELSE map[i]]
    ELSE Append(map, component)

\* for (const comp of circuit.components) try { await this.renderComponent(comp) }
RECURSIVE RenderComponents(_, _)
RenderComponents(components, state) ==
    IF components = <<>> THEN state
    ELSE LET comp == Head(components)
         IN  RenderComponents(Tail(components),
                IF renderComponentSucceeds(comp, state.occupied)
                THEN [state EXCEPT !.rendered = MapSet(@, comp),
                                   !.occupied = @ \cup getRequiredHoles(comp),
                                   !.occupants = markHolesOccupied(@, getRequiredHoles(comp),
                                                                   "component", comp.id)]
                ELSE state)

\* this.app.pointsById.get(id) finds a hole or a pin of the Pico
PointExists(id) ==
    \/ Len(id) = 1 /\ FindHole(id[1]) /= 0
    \/ Len(id) = 2 /\ id[1] = "pico1"
                   /\ \E k \in DOMAIN picoDefinition.pins : picoDefinition.pins[k] = id[2]

\* the holes among two connection points
HolesOf(from, to) ==
    {id[1] : id \in {p \in {from, to} : ~IncludesDot(p)}}

\* createWire called without options
noOptions == [id |-> Undefined]

\* BreadboardApp.createWire(startPoint, endPoint, options): the wire is pushed and
\* its holes are marked as the wire's, whatever they were marked with
createWire(state, from, to, options) ==
    LET id == IF Truthy(options.id) THEN options.id
              ELSE "wire-" \o ToString(Len(state.wires) + 1)
    IN  [state EXCEPT
            !.wires = Append(@, Wire(id, from, to, Undefined, Undefined)),
            !.occupied = @ \cup HolesOf(from, to),
            !.occupants = markHolesOccupied(@, HolesOf(from, to), "wire", id)]

\* BreadboardApp.clearAllWires(): every hole whose occupant type is 'wire' is cleared
clearAllWires(map) ==
    [h \in {id \in DOMAIN map : map[id].type /= "wire"} |-> map[h]]

\* CircuitLoader.clearCircuit(): clearAllWires, then the holes whose data-occupied-by
\* is the id of a component drawn on the components layer are cleared
clearCircuit(map, rendered) ==
    LET kept == clearAllWires(map)
        drawn == {rendered[i].id : i \in DOMAIN rendered}
    IN  [h \in {id \in DOMAIN kept : kept[id].by \notin drawn} |-> kept[h]]

\* CircuitLoader.renderWire(wireData) returns without throwing
renderWireSucceeds(wire, occupiedHoles) ==
    /\ wire.kind = "object"
    /\ wire.from /= <<>> /\ wire.to /= <<>>
    /\ PointExists(wire.from) /\ PointExists(wire.to)
    /\ HolesOf(wire.from, wire.to) \cap occupiedHoles = {}

\* for (const wire of circuit.wires) try { this.renderWire(wire) }
RECURSIVE RenderWires(_, _)
RenderWires(wires, state) ==
    IF wires = <<>> THEN state
    ELSE RenderWires(Tail(wires),
            IF renderWireSucceeds(Head(wires), state.occupied)
            THEN createWire(state, Head(wires).from, Head(wires).to, noOptions)
            ELSE state)

\* the documents handed to loadCircuit
LoaderPool ==
    << ComponentPool[1], ComponentPool[2],
       Component("led1", "led-red-5mm", <<Entry("anode", "2F"), Entry("cathode", "3F")>>),
       ComponentPool[3], ComponentPool[6], ComponentPool[8],
       Component("r4", "resistor-220", <<Entry("pin0", "1J"), Entry("pin1", "3J")>>) >>

LoaderWires ==
    << WirePool[1],
       Wire("w2", <<"5I">>, <<"pico1", "GND_3">>, Undefined, Undefined),
       WirePool[8], badWire >>

LoaderDocuments ==
    { Document("object", "object", goodMetadata, "array", cs, "array", ws) :
        cs \in SubLists(LoaderPool, DOMAIN LoaderPool, MaxLoaderComponents),
        ws \in SubLists(LoaderWires, DOMAIN LoaderWires, MaxLoaderWires) }
    \cup { Document("object", "missing", goodMetadata, "array", <<>>, "array", <<>>),
           Document("object", "object", goodMetadata, "array", <<LoaderPool[2]>>,
                    "missing", <<>>) }

\* the connection points the user clicks
ClickPoints == { <<"5I">>, <<"pico1", "GP0">> }

ExportIdle ==
    /\ ValidateIdle
    /\ PathIdle
    /\ ConcurrentIdle

ExportInit ==
    /\ LoaderIdle
    /\ ExportIdle

\* CircuitLoader.loadCircuit(circuitJson): without a circuit object or a components
\* array it returns { success: false } before it clears anything
LoadCircuit(document) ==
    /\ IF document.circuitKind /= "object" \/ document.componentsKind /= "array"
       THEN UNCHANGED <<renderedComponents, appWires, occupied, occupants>>
       ELSE LET left == clearCircuit(occupants, renderedComponents)
                cleared == [rendered |-> <<>>, wires |-> <<>>, occupied |-> DOMAIN left,
                            occupants |-> left]
                withComponents == RenderComponents(document.components, cleared)
                withWires == IF document.wiresKind = "array"
                             THEN RenderWires(document.wires, withComponents)
                             ELSE withComponents
            IN  /\ renderedComponents' = withWires.rendered
                /\ appWires' = withWires.wires
                /\ occupied' = withWires.occupied
                /\ occupants' = withWires.occupants
    /\ exported' = <<>>
    /\ UNCHANGED <<selectedPoint, wiringVars, validateVars, pathVars, concurrentVars>>

\* the canvas as the argument of createWire
canvas ==
    [rendered |-> renderedComponents, wires |-> appWires, occupied |-> occupied,
     occupants |-> occupants]

\* GuidedWiringManager.completeCurrentWire(fromPoint, toPoint): the wire is created
\* with the id of the queue entry and no look at the holes, the index moves on and a
\* callback is left with setTimeout
completeCurrentWire(fromPoint, toPoint) ==
    LET wire == wireQueue[currentWireIndex + 1]
        drawn == createWire(canvas, fromPoint, toPoint, [id |-> wire.id])
    IN  /\ timers < MaxTimers
        /\ appWires' = drawn.wires
        /\ occupied' = drawn.occupied
        /\ occupants' = drawn.occupants
        /\ isPulsingActive' = FALSE
        /\ startPoint' = <<>>
        /\ waypoints' = <<>>
        /\ currentWireIndex' = currentWireIndex + 1
        /\ timers' = timers + 1
        /\ UNCHANGED <<selectedPoint, wireQueue, isActive>>

\* GuidedWiringManager.handlePointClick(pointData) when it returns true
handlePointClick(point) ==
    LET currentWire == wireQueue[currentWireIndex + 1]
        isValidEndpoint == point = currentWire.from \/ point = currentWire.to
        otherEndpoint == IF startPoint = currentWire.from THEN currentWire.to
                         ELSE currentWire.from
    IN  IF startPoint = <<>>
        THEN /\ startPoint' = IF isValidEndpoint THEN point ELSE startPoint
             /\ UNCHANGED <<appWires, occupied, occupants, selectedPoint, wireQueue,
                            currentWireIndex, isActive, waypoints, isPulsingActive,
                            timers>>
        ELSE IF point = otherEndpoint THEN completeCurrentWire(startPoint, point)
        ELSE IF isValidEndpoint
        THEN UNCHANGED <<appWires, occupied, occupants, selectedPoint, wiringVars>>
        ELSE /\ Len(waypoints) < MaxWaypoints
             /\ waypoints' = Append(waypoints, point)
             /\ UNCHANGED <<appWires, occupied, occupants, selectedPoint, wireQueue,
                            currentWireIndex, isActive, startPoint, isPulsingActive,
                            timers>>

\* handleConnectionPointClick(element, pointData): a click the guided wiring does not
\* handle selects the point or draws the wire from the selected point
ClickPoint(point) ==
    /\ Len(appWires) < MaxAppWires
    /\ IF isActive /\ currentWireIndex < Len(wireQueue)
       THEN handlePointClick(point)
       ELSE /\ UNCHANGED wiringVars
            /\ IF HolesOf(point, point) \cap occupied /= {}
               THEN UNCHANGED <<selectedPoint, appWires, occupied, occupants>>
               ELSE IF selectedPoint = <<>>
               THEN /\ selectedPoint' = point
                    /\ UNCHANGED <<appWires, occupied, occupants>>
               ELSE /\ selectedPoint' = <<>>
                    /\ IF selectedPoint /= point
                       THEN LET drawn == createWire(canvas, selectedPoint, point, noOptions)
                            IN  /\ appWires' = drawn.wires
                                /\ occupied' = drawn.occupied
                                /\ occupants' = drawn.occupants
                       ELSE UNCHANGED <<appWires, occupied, occupants>>
    /\ exported' = <<>>
    /\ UNCHANGED <<renderedComponents, validateVars, pathVars, concurrentVars>>

exportedMetadata ==
    [kind |-> "object", name |-> "Exported Circuit",
     description |-> "Circuit exported from Breadboard Builder"]

\* CircuitLoader.exportCircuit()
exportCircuit ==
    Document("object", "object", exportedMetadata,
             "array", [i \in DOMAIN renderedComponents |->
                          Component(renderedComponents[i].id, renderedComponents[i].type,
                                    renderedComponents[i].placement)],
             "array", [i \in DOMAIN appWires |->
                          Wire(appWires[i].id, appWires[i].from, appWires[i].to,
                               Undefined, Undefined)])

ExportCircuit ==
    /\ exported' = <<exportCircuit>>
    /\ UNCHANGED <<renderedComponents, appWires, occupied, selectedPoint, occupants,
                   wiringVars, validateVars, pathVars, concurrentVars>>

ExportNext ==
    \/ \E document \in LoaderDocuments : LoadCircuit(document)
    \/ \E point \in ClickPoints : ClickPoint(point)
    \/ ExportCircuit

ExportSpec == ExportInit /\ [][ExportNext]_vars

\* C19: when the library index cannot be loaded, validate returns before any layer
\* runs, with valid = false, the single error LIBRARY_LOAD_FAILED and no warnings.
C19_LibraryLoadFailed ==
    (pc = "returned" /\ componentLibrary = Null) =>
        /\ console = <<>>
        /\ structuralErrors = <<>> /\ referenceErrors = <<>> /\ electricalErrors = <<>>
        /\ topologyErrors = <<>> /\ componentErrors = <<>>
        /\ result.returned /\ ~result.valid
        /\ Len(result.errors) = 1
        /\ result.errors[1].type = "LIBRARY_LOAD_FAILED"
        /\ result.warnings = <<>>

\* validate has returned for a circuit with components although the index did not load
C19_Witness ==
    /\ pc = "returned" /\ componentLibrary = Null
    /\ circuitJSON.components /= <<>>
    /\ result.errors = <<createError("LIBRARY_LOAD_FAILED", "validator", noMetadata)>>

\* C20: a document returned by exportCircuit(), whatever components loadCircuit
\* rendered and whatever wires exist, passes validateSchema with no diagnostic.
C20_ExportPassesSchema ==
    exported /= <<>> =>
        /\ ~validateSchemaThrows(exported[1])
        /\ validateSchema(exported[1]) = <<>>

\* the same for the exports in which no rendered component is the Pico
C20_ExportWithoutPicoPassesSchema ==
    (exported /= <<>> /\ \A i \in DOMAIN exported[1].components :
                            exported[1].components[i].type /= "raspberry-pi-pico") =>
        /\ ~validateSchemaThrows(exported[1])
        /\ validateSchema(exported[1]) = <<>>

\* an export of a resistor, an LED and wires, without the Pico
C20_WithoutPicoWitness ==
    /\ exported /= <<>>
    /\ Len(exported[1].components) = 2
    /\ Len(exported[1].wires) >= 2
    /\ \E i \in DOMAIN exported[1].wires : exported[1].wires[i].id = "wire-2"
    /\ \A i \in DOMAIN exported[1].components :
           exported[1].components[i].type /= "raspberry-pi-pico"

\* the ordered pairs (a, b) with b in the adjacency set of a
Adjacent(graph) ==
    UNION {{<<a, b>> : b \in Range(graph.adj[a])} : a \in DOMAIN graph.adj}

\* layer 4 has run on a circuit with components and wires, so it has built the graph
GraphBuilt ==
    /\ pc = "layer5"
    /\ Len(circuitJSON.components) > 0 /\ Len(circuitJSON.wires) > 0

\* C24: the graph built for a schema-valid circuit is undirected and has no
\* self-loop, and a and b are adjacent exactly when a component places pins on both
\* or a wire has one endpoint resolving to each.
C24_GraphUndirected ==
    GraphBuilt =>
        LET graph == buildBusConnectivityGraph(circuitJSON)
        IN  /\ Range(graph.keys) = DOMAIN graph.adj
            /\ \A e \in Adjacent(graph) : e[1] /= e[2] /\ <<e[2], e[1]>> \in Adjacent(graph)
            /\ {{e[1], e[2]} : e \in Adjacent(graph)} = Links(circuitJSON)

\* the graph has an edge from a component and an edge from a wire, and a wire with
\* an endpoint that resolves to no bus
C24_Witness ==
    /\ GraphBuilt
    /\ Cardinality(Links(circuitJSON)) >= 2
    /\ \E i \in DOMAIN circuitJSON.wires :
          /\ Cardinality(WireBuses(circuitJSON, circuitJSON.wires[i])) = 2
          /\ WireBuses(circuitJSON, circuitJSON.wires[i]) \in Links(circuitJSON)
    /\ \E i \in DOMAIN circuitJSON.wires :
          WireBuses(circuitJSON, circuitJSON.wires[i]) \cap {Undefined, Null} /= {}

\* C25: pathExists returns for every graph, cycles included, and returns true
\* exactly when the target is the start or is reached from it along edges.
C25_PathExistsIsReachability ==
    /\ ~pathAnswer.returned => ENABLED CallPathExists
    /\ pathAnswer.returned =>
           (pathAnswer.value <=>
               pathTarget \in ReachableOver({{e[1], e[2]} : e \in Adjacent(pathGraph)},
                                            {pathStart}))

\* the call has returned true for a target two edges away in a graph with a cycle
C25_Witness ==
    /\ pathAnswer.returned /\ pathAnswer.value
    /\ pathStart /= pathTarget
    /\ pathStart \in DOMAIN pathGraph.adj
    /\ pathTarget \notin Range(pathGraph.adj[pathStart])
    /\ \A b \in DOMAIN pathGraph.adj : Len(pathGraph.adj[b]) >= 1

\* the call has returned false for a target that is a node of another part
C25_UnreachableWitness ==
    /\ pathAnswer.returned /\ ~pathAnswer.value
    /\ pathStart \in DOMAIN pathGraph.adj /\ pathTarget \in DOMAIN pathGraph.adj
    /\ Len(pathGraph.adj[pathStart]) >= 1 /\ Len(pathGraph.adj[pathTarget]) >= 1

\* some bus reached from the bus (the bus included) has a ground hole or is touched
\* by a wire with an endpoint that is a GND pin of a component
TouchesGround(circuit, buses) ==
    \E b \in buses :
        \/ BusHasHoleOfType(b, "ground")
        \/ \E i \in DOMAIN circuit.wires :
              /\ b \in WireBuses(circuit, circuit.wires[i])
              /\ \/ isGroundPin(circuit.wires[i].from, circuit)
                 \/ isGroundPin(circuit.wires[i].to, circuit)

GroundReached(circuit, bus) ==
    Truthy(bus) /\ TouchesGround(circuit, ReachableFrom(circuit, {bus}))

\* NO_GROUND_PATH is reported at this component exactly when no ground is reached
\* from its cathode bus
GroundPathChecked(circuit, led) ==
    (\E e \in ResultErrors : e.type = "NO_GROUND_PATH" /\ e.location = led.id)
    <=> ~GroundReached(circuit, BusMapGet(PlacementGet(led, "cathode")))

\* C26 (as claimed): for each LED of the circuit, NO_GROUND_PATH is reported at that
\* LED exactly when no bus reached from its cathode bus has a ground hole or a wire
\* to a GND pin.
C26_EveryLedPathChecked ==
    Completed =>
        \A i \in OfElectricalType(circuitJSON, "led") :
            GroundPathChecked(circuitJSON, circuitJSON.components[i])

\* what the code does: the first component of type 'led' or 'led-red-5mm' of a
\* circuit with wires is path-checked, and no other component is
C26_FirstLedPathChecked ==
    (Completed /\ Len(circuitJSON.wires) > 0) =>
        /\ HasOfType(circuitJSON, isLedTypeName) =>
              GroundPathChecked(circuitJSON, FirstOfType(circuitJSON, isLedTypeName))
        /\ \A e \in ResultErrors :
              e.type = "NO_GROUND_PATH" =>
                  /\ HasOfType(circuitJSON, isLedTypeName)
                  /\ e.location = FirstOfType(circuitJSON, isLedTypeName).id

\* a wired circuit with two LEDs of distinct ids: the first reaches ground, the
\* second does not, and NO_GROUND_PATH is not reported
C26_SecondLedWitness ==
    /\ Completed
    /\ Len(circuitJSON.wires) > 0
    /\ Cardinality(OfElectricalType(circuitJSON, "led")) = 2
    /\ GroundReached(circuitJSON,
          BusMapGet(PlacementGet(FirstOfType(circuitJSON, isLedTypeName), "cathode")))
    /\ \A i, j \in OfElectricalType(circuitJSON, "led") :
          i /= j => circuitJSON.components[i].id /= circuitJSON.components[j].id
    /\ \E i \in OfElectricalType(circuitJSON, "led") :
          ~GroundReached(circuitJSON,
                         BusMapGet(PlacementGet(circuitJSON.components[i], "cathode")))
    /\ \A e \in ResultErrors : e.type /= "NO_GROUND_PATH"

\* some bus of the set has a power hole or is touched by a wire with an endpoint
\* that is a GP pin of a component
TouchesSource(circuit, buses) ==
    \E b \in buses :
        \/ BusHasHoleOfType(b, "power")
        \/ \E i \in DOMAIN circuit.wires :
              /\ b \in WireBuses(circuit, circuit.wires[i])
              /\ \/ isGPIOPin(circuit.wires[i].from, circuit)
                 \/ isGPIOPin(circuit.wires[i].to, circuit)

\* the buses wired to a pin of component i, not going through the component itself
SideOf(circuit, i, bus) ==
    LET others == {j \in DOMAIN circuit.components : j /= i}
        byComponents == UNION {SUBSET ComponentBuses(circuit.components[j]) : j \in others}
        byWires == {WireBuses(circuit, circuit.wires[k]) : k \in DOMAIN circuit.wires}
        links == {link \in byComponents \cup byWires :
                     Cardinality(link) = 2 /\ link \cap {Undefined, Null} = {}}
    IN  ReachableOver(links, {bus})

\* component i is an LED wired backwards: its cathode side reaches the source and no
\* ground, its anode side reaches ground and no source
WiredBackwards(circuit, i) ==
    LET led == circuit.components[i]
        cathodeBus == BusMapGet(PlacementGet(led, "cathode"))
        anodeBus == BusMapGet(PlacementGet(led, "anode"))
    IN  /\ HasElectricalType(led, "led")
        /\ Truthy(cathodeBus) /\ Truthy(anodeBus)
        /\ TouchesSource(circuit, SideOf(circuit, i, cathodeBus))
        /\ ~TouchesGround(circuit, SideOf(circuit, i, cathodeBus))
        /\ TouchesGround(circuit, SideOf(circuit, i, anodeBus))
        /\ ~TouchesSource(circuit, SideOf(circuit, i, anodeBus))

\* C27 (as claimed): a circuit with an LED wired backwards is never accepted:
\* validate reports NO_GROUND_PATH, NO_SOURCE_PATH or LED_REVERSED and returns
\* valid = false.
C27_BackwardsLedRejected ==
    (Completed /\ \E i \in DOMAIN circuitJSON.components : WiredBackwards(circuitJSON, i))
        => /\ ~result.valid
           /\ \E e \in ResultErrors :
                 e.type \in {"NO_GROUND_PATH", "NO_SOURCE_PATH", "LED_REVERSED"}

\* the weaker statement that such a circuit is not accepted, whatever the diagnostic
C27_BackwardsLedNotValid ==
    (Completed /\ \E i \in DOMAIN circuitJSON.components : WiredBackwards(circuitJSON, i))
        => ~result.valid

\* a circuit whose only LED is wired backwards has been accepted without a diagnostic
C27_AcceptedWitness ==
    /\ Completed
    /\ \E i \in DOMAIN circuitJSON.components : WiredBackwards(circuitJSON, i)
    /\ result.valid /\ result.errors = <<>>

\* C28 (as claimed): the holes generateBreadboardData returns have pairwise-distinct
\* ids across the main grid and the top and bottom rails, so holeMap and busMap hold
\* one entry per generated hole.
C28_HoleIdsDistinct ==
    pc /= "idle" =>
        /\ \A i, j \in DOMAIN holes : i /= j => holes[i].id /= holes[j].id
        /\ Cardinality(DOMAIN holeMap) = Len(holes)
        /\ Cardinality(DOMAIN busMap) = Len(holes)

\* what holds instead: the ids of the main grid and of the top rails are pairwise
\* distinct, and a bottom-rail row gives every one of its holes the id of column 1
C28_BottomRailsShareOneId ==
    LET bottom == {i \in DOMAIN holes :
                      i > Len(holes) - 2 * MaxRailGroups * MaxHolesInGroup}
    IN  pc /= "idle" =>
            /\ \A i, j \in DOMAIN holes \ bottom : i /= j => holes[i].id /= holes[j].id
            /\ \A i \in bottom : holes[i].id \in {"1Y", "1Z"}
            /\ Cardinality(DOMAIN holeMap) = Len(holes) - Cardinality(bottom) + 2

\* a validator has been built over a board with more than one hole in a bottom rail row
C28_BottomRailWitness ==
    /\ pc /= "start"
    /\ Cardinality({i \in DOMAIN holes : holes[i].bus = "rail-bottom-Y-group0"}) > 1

\* validate, run to its end on the document with every definition file available,
\* returns valid = false
ValidateRejects(document) ==
    LET outcome == RunAlone(document, {})
    IN  ~outcome.threw /\ ~outcome.result.valid

\* C21 (as claimed): the validator runs during a circuit load and blocks invalid
\* circuits: loadCircuit renders no component and no wire of a circuit for which
\* validate returns valid = false.
C21_InvalidCircuitNotRendered ==
    [][\A document \in LoaderDocuments :
          (LoadCircuit(document) /\ ValidateRejects(document))
              => renderedComponents' = <<>> /\ appWires' = <<>>]_vars

(***************************************************************************)
(* The canvas with the guided wiring: GuidedWiringManager of               *)
(* validator-panel-ui.js on the BreadboardApp of app.js.                   *)
(***************************************************************************)

\* wire.from.includes('GND') || wire.to.includes('GND')
MentionsGND(wire) ==
    \E s \in Range(wire.from) \cup Range(wire.to) : IncludesGND(s)

\* includes('3V3') or includes('VBUS') on either endpoint
MentionsPower(wire) ==
    \E s \in Range(wire.from) \cup Range(wire.to) : s \in {"3V3", "VBUS"}

\* isRailConnection(pointId): /[WXY Z]$/ on the names of the model is true of the
\* hole ids of the rails
isRailConnection(pointId) ==
    /\ pointId /= <<>>
    /\ \E i \in DOMAIN holes :
          holes[i].id = pointId[Len(pointId)] /\ holes[i].type /= "main"

\* calculateWirePriority(wire)
calculateWirePriority(wire) ==
    (IF MentionsGND(wire) THEN 100 ELSE 0)
    + (IF MentionsPower(wire) THEN 90 ELSE 0)
    + (IF isRailConnection(wire.from) \/ isRailConnection(wire.to) THEN 80 ELSE 0)

\* prioritizeWires(wires): a stable sort, higher score first
RECURSIVE prioritizeWires(_)
prioritizeWires(wires) ==
    IF wires = <<>> THEN <<>>
    ELSE LET sorted == prioritizeWires(SubSeq(wires, 1, Len(wires) - 1))
             last == wires[Len(wires)]
             ahead == Cardinality({i \in DOMAIN sorted :
                          calculateWirePriority(sorted[i]) >= calculateWirePriority(last)})
         IN  SubSeq(sorted, 1, ahead) \o <<last>> \o SubSeq(sorted, ahead + 1, Len(sorted))

\* showCurrentWire(): past the end of the queue it is onAllWiresComplete, else the
\* endpoints of the current wire start pulsing
showCurrentWire ==
    IF currentWireIndex' >= Len(wireQueue')
    THEN isActive' = FALSE /\ UNCHANGED isPulsingActive
    ELSE isPulsingActive' = TRUE /\ UNCHANGED isActive

\* the circuits loaded onto the canvas and the wire lists handed to loadWires
WiringDocuments ==
    { Document("object", "object", goodMetadata, "array", <<ComponentPool[2]>>,
               "array", <<>>),
      Document("object", "object", goodMetadata, "array", <<ComponentPool[2]>>,
               "array", <<Wire("w1", <<"pico1", "GND_3">>, <<"1I">>, Undefined, Undefined)>>) }

WiringQueues ==
    { <<>>,
      <<Wire("w1", <<"1I">>, <<"1J">>, Undefined, Undefined),
        Wire("w2", <<"1J">>, <<"pico1", "GND_3">>, Undefined, Undefined)>>,
      <<Wire("w1", <<"pico1", "GND_3">>, <<"1I">>, Undefined, Undefined)>> }

\* the connection points the user clicks while wiring
WiringPoints == { <<"1J">>, <<"1I">>, <<"pico1", "GND_3">> }

WiringInit ==
    /\ LoaderIdle
    /\ ExportIdle

\* the Clear Wires button: BreadboardApp.clearAllWires()
ClearAllWires ==
    /\ occupants' = clearAllWires(occupants)
    /\ occupied' = DOMAIN clearAllWires(occupants)
    /\ appWires' = <<>>
    /\ UNCHANGED <<renderedComponents, selectedPoint, exported, wiringVars,
                   validateVars, pathVars, concurrentVars>>

\* GuidedWiringManager.loadWires(wires)
LoadWires(wires) ==
    /\ IF wires = <<>>
       THEN UNCHANGED <<wireQueue, currentWireIndex>>
       ELSE wireQueue' = prioritizeWires(wires) /\ currentWireIndex' = 0
    /\ UNCHANGED <<isActive, startPoint, waypoints, isPulsingActive, timers,
                   renderedComponents, appWires, occupied, selectedPoint, exported,
                   occupants, validateVars, pathVars, concurrentVars>>

\* GuidedWiringManager.start(): with a wire in the queue, showCurrentWire() at index
\* 0 starts the pulsing
Start ==
    /\ IF Len(wireQueue) = 0
       THEN UNCHANGED <<isActive, currentWireIndex, isPulsingActive>>
       ELSE /\ isActive' = TRUE
            /\ currentWireIndex' = 0
            /\ isPulsingActive' = TRUE
    /\ UNCHANGED <<wireQueue, startPoint, waypoints, timers,
                   renderedComponents, appWires, occupied, selectedPoint, exported,
                   occupants, validateVars, pathVars, concurrentVars>>

\* GuidedWiringManager.stop()
Stop ==
    /\ isActive' = FALSE
    /\ isPulsingActive' = FALSE
    /\ waypoints' = <<>>
    /\ startPoint' = <<>>
    /\ UNCHANGED <<wireQueue, currentWireIndex, timers,
                   renderedComponents, appWires, occupied, selectedPoint, exported,
                   occupants, validateVars, pathVars, concurrentVars>>

\* the callback completeCurrentWire left with setTimeout runs
TimerFires ==
    /\ timers > 0
    /\ timers' = timers - 1
    /\ UNCHANGED <<wireQueue, currentWireIndex>>
    /\ showCurrentWire
    /\ UNCHANGED <<startPoint, waypoints,
                   renderedComponents, appWires, occupied, selectedPoint, exported,
                   occupants, validateVars, pathVars, concurrentVars>>

WiringNext ==
    \/ \E document \in WiringDocuments : LoadCircuit(document)
    \/ \E point \in WiringPoints : ClickPoint(point)
    \/ ClearAllWires
    \/ \E wires \in WiringQueues : LoadWires(wires)
    \/ Start
    \/ Stop
    \/ TimerFires

WiringSpec == WiringInit /\ [][WiringNext]_vars

\* the wire ends and the component legs that sit in a hole of the canvas
WireEndsAt(holeId) ==
    Cardinality({i \in DOMAIN appWires : appWires[i].from = <<holeId>>})
    + Cardinality({i \in DOMAIN appWires : appWires[i].to = <<holeId>>})

LegsAt(holeId) ==
    Cardinality({i \in DOMAIN renderedComponents :
                    holeId \in getRequiredHoles(renderedComponents[i])})

HoleIds == {holes[i].id : i \in DOMAIN holes}

\* C22 (as claimed): after any sequence of circuit loads, manual wire clicks,
\* guided-wiring wire completions and clear-all-wires, no hole holds more than one
\* thing: never a component leg and a wire end, never two wire ends.
C22_OneThingPerHole ==
    \A holeId \in HoleIds : WireEndsAt(holeId) + LegsAt(holeId) <= 1

\* the same without the guided wiring: while no wire list has been loaded
C22_OneThingPerHoleUnguided ==
    wireQueue = <<>> => C22_OneThingPerHole

\* a hole holds the leg of a component and the end of a wire
C22_LegAndWireWitness ==
    \E holeId \in HoleIds : WireEndsAt(holeId) > 0 /\ LegsAt(holeId) > 0

\* C23 (as claimed): clearAllWires() frees every hole a wire occupies and changes no
\* other occupation; the holes occupied by component legs stay marked occupied by
\* that component.
C23_ClearAllWiresKeepsLegs ==
    [][ClearAllWires =>
          /\ \A holeId \in HoleIds :
                (WireEndsAt(holeId) > 0 /\ LegsAt(holeId) = 0)
                    => holeId \notin DOMAIN occupants'
          /\ \A holeId \in HoleIds :
                WireEndsAt(holeId) = 0
                    => /\ holeId \in DOMAIN occupants' <=> holeId \in DOMAIN occupants
                       /\ holeId \in DOMAIN occupants
                              => occupants'[holeId] = occupants[holeId]
          /\ \A i \in DOMAIN renderedComponents :
                \A holeId \in getRequiredHoles(renderedComponents[i]) :
                    /\ holeId \in DOMAIN occupants'
                    /\ occupants'[holeId] = [type |-> "component",
                                             by |-> renderedComponents[i].id]]_vars

\* what clearAllWires() does to the marks: the holes marked as a wire's are freed and
\* every other mark is kept as it is
C23_MarksOfWiresCleared ==
    [][ClearAllWires =>
          /\ \A holeId \in DOMAIN occupants :
                IF occupants[holeId].type = "wire"
                THEN holeId \notin DOMAIN occupants'
                ELSE holeId \in DOMAIN occupants'
                     /\ occupants'[holeId] = occupants[holeId]
          /\ DOMAIN occupants' \subseteq DOMAIN occupants
          /\ \A holeId \in HoleIds : WireEndsAt(holeId) > 0 => holeId \notin DOMAIN occupants'
          /\ occupied' = DOMAIN occupants']_vars

\* the leg of a drawn component sits in a hole that is marked free
C23_FreedLegWitness ==
    /\ appWires = <<>>
    /\ \E i \in DOMAIN renderedComponents :
          \E holeId \in getRequiredHoles(renderedComponents[i]) : holeId \notin occupied

\* C29 (as claimed): while guided wiring is active, a click creates a wire only for
\* the current queue entry, in queue order: only when an accepted first click on one
\* endpoint of the current wire is followed by a click on its other endpoint; each
\* completion increases currentWireIndex by exactly one, and currentWireIndex never
\* exceeds the length of the queue.
C29_GuidedWiresInQueueOrder ==
    [][/\ currentWireIndex' <= Len(wireQueue')
       /\ (/\ isActive
           /\ \E point \in WiringPoints : ClickPoint(point)
           /\ Len(appWires') > Len(appWires))
              => /\ currentWireIndex < Len(wireQueue)
                 /\ currentWireIndex' = currentWireIndex + 1
                 /\ LET currentWire == wireQueue[currentWireIndex + 1]
                        drawn == appWires'[Len(appWires')]
                    IN  /\ startPoint \in {currentWire.from, currentWire.to}
                        /\ drawn.from = startPoint
                        /\ {drawn.from, drawn.to} = {currentWire.from, currentWire.to}]_vars

\* the part that holds: a wire a click creates while the queue has a current entry
\* ends at that entry's other endpoint and moves the index on by one, and the index
\* never exceeds the length of the queue
C29_CompletionsMoveOnByOne ==
    [][/\ currentWireIndex' <= Len(wireQueue')
       /\ (/\ isActive /\ currentWireIndex < Len(wireQueue)
           /\ \E point \in WiringPoints : ClickPoint(point)
           /\ Len(appWires') > Len(appWires))
              => /\ currentWireIndex' = currentWireIndex + 1
                 /\ appWires'[Len(appWires')].id = wireQueue[currentWireIndex + 1].id
                 /\ appWires'[Len(appWires')].from = startPoint
                 /\ appWires'[Len(appWires')].to \in
                        {wireQueue[currentWireIndex + 1].from,
                         wireQueue[currentWireIndex + 1].to}]_vars

\* one part of the claim on its own: with every wire of the queue completed and
\* guided wiring still active, no click creates a wire
C29_NoWireAfterLastCompletion ==
    [][~(/\ isActive
         /\ currentWireIndex = Len(wireQueue)
         /\ \E point \in WiringPoints : ClickPoint(point)
         /\ Len(appWires') > Len(appWires))]_vars

\* C30 (as claimed): the endpoints pulse only while guided wiring is active: whenever
\* isActive is false, isPulsingActive is false, also after a callback an earlier wire
\* completion left has run.
C30_PulsingOnlyWhileActive ==
    ~isActive => ~isPulsingActive

\* the same as long as no callback of a wire completion is outstanding or has run
\* after a stop: without timers the pulsing follows isActive
C30_PulsingOnlyWhileActiveUntilTimer ==
    [][(~isActive' /\ isPulsingActive') => (TimerFires \/ isPulsingActive)]_vars

\* the endpoints pulse while guided wiring is stopped
C30_PulsingWhileStoppedWitness ==
    ~isActive /\ isPulsingActive /\ timers = 0

====
